---- MODULE Spec2Model ----
(***************************************************************************)
(* WMCore WorkQueue: a global queue, the local queues that pull from it,   *)
(* the element state machine, cancellation, reconciliation (end policy)    *)
(* and ingest (queueWork / processInboundWork).                            *)
(*                                                                         *)
(* The queue engine is src/python/WMCore/WorkQueue/WorkQueue.py.  The      *)
(* document store (WorkQueueBackend), the element type, the start and end  *)
(* policies and CouchDB replication are not part of the sources at hand;   *)
(* they are modelled after the design document and say so where defined.   *)
(***************************************************************************)
EXTENDS Integers, Sequences, FiniteSets, TLC

VARIABLES
    inbox,      \* inbox[q][id]    : the inbox collection of queue q
    elements,   \* elements[q][id] : the element collection of queue q
    pull,       \* pull[l] : the pullWork call of queue l that is in flight
    ingest,     \* the queueWork call on the global queue that is in flight
    copies,     \* history: copies[e] = the local queues an element was replicated
                \*   to since it last became Available on the global queue
    everInbox,  \* history: everInbox[q] = ids ever inserted in q's inbox
    admin,      \* number of administrative RPCs made so far
    ss,         \* the end policy applied on its own: its inputs and its results
    dbs,        \* the input blocks the metadata service lists; the start policy
                \*   makes one element of each block
    mt,         \* the matcher applied on its own: its inputs and what it returns
    conflicts,  \* the queues whose store holds documents with unresolved
                \*   replication conflicts
    subs,       \* subs[e] = number of subscriptions the execution substrate
                \*   created for element e that the store never recorded
    tc,         \* the TaskChain factories and the ParameterStorage decorator
                \*   their setup steps share
    last        \* the last operation and what it returned or raised

vars == <<inbox, elements, pull, ingest, copies, everInbox, admin, ss, dbs, mt, conflicts, subs, tc, last>>

(***************************************************************************)
(* Bounds of the model.                                                    *)
(***************************************************************************)
MaxAdmin == 1         \* administrative RPCs (setStatus, doneWork, resetWork) per run
MaxLen == 3           \* longest element list given to the end policy on its own

(***************************************************************************)
(* Configuration (WorkQueue.__init__).                                     *)
(***************************************************************************)
GlobalQ == "G"
LocalQs == {"L1", "L2"}
Queues == {GlobalQ} \cup LocalQs
None == "None"

\* params['LocalQueueFlag']: False for globalQueue(), default True
LocalQueueFlag(q) == q \in LocalQs
\* params['PopulateFilesets']: False for globalQueue(), default True
PopulateFilesets(q) == q \in LocalQs
\* params['ParentQueueCouchUrl']: where a queue gets its work from
ParentQueueCouchUrl(q) == IF q \in LocalQs THEN GlobalQ ELSE None
\* params['QueueURL']
QueueURL(q) == q
\* params['WMBSUrl']: only set on a local queue
WMBSUrl(q) == IF q = "L1" THEN "wmbs1" ELSE IF q = "L2" THEN "wmbs2" ELSE None
\* params['WorkPerCycle'] (default 100), scaled to the universe
WorkPerCycle == 2
MaxSubs == 2           \* subscriptions left unrecorded per element
Factories == {"A", "B"}   \* TaskChainWorkloadFactory instances
\* params['cancelGraceTime'] (default 86400 s), in clock ticks
cancelGraceTime == 1
\* time.time().  Time is kept relative to the present: a tick of the clock moves
\* every UpdateTime one tick into the past, down to "longer ago than
\* cancelGraceTime", which is 0
now == cancelGraceTime + 1

(***************************************************************************)
(* Workflows and what the start policy splits them into.                   *)
(***************************************************************************)
Workflows == {"W1", "W2"}
ElementIDs == {"e1", "e2", "e3"}
DocIDs == Workflows \cup ElementIDs
\* the workflow an element was split from
RequestOf(e) == IF e = "e3" THEN "W2" ELSE "W1"
\* the Jobs estimate the splitter gives an element
JobsOf(e) == IF e = "e2" THEN 2 ELSE 1
SplitOf(w) == {e \in ElementIDs : RequestOf(e) = w}
\* the priorities a request may be given
Priorities == {5, 10}

Statuses == {"Available", "Negotiating", "Acquired", "Running", "Done", "Failed",
             "CancelRequested", "Canceled"}
EndStates == {"Done", "Failed", "Canceled"}

\* WorkQueueElement.inEndState
inEndState(d) == d.Status \in EndStates

\* a document that is not in the collection
NoDoc == [Id |-> None, Status |-> "Absent", RequestName |-> None, ChildQueueUrl |-> None,
          ParentQueueUrl |-> None, WMBSUrl |-> None, ParentQueueId |-> None,
          SubscriptionId |-> 0, UpdateTime |-> 0, Jobs |-> 0,
          PercentComplete |-> 0, PercentSuccess |-> 0, ProcessedInputs |-> {},
          InsertTime |-> 0, Priority |-> 0, OpenForNewData |-> FALSE,
          TimestampFoundNewData |-> 0, OpenRunningTimeout |-> 0, StartPolicy |-> None]
Present(d) == d.Status # "Absent"

\* spec.startPolicy(): the start policy the workload of a workflow names
startPolicy(wf) == IF wf = "W2" THEN "MonteCarlo" ELSE "Block"

\* WorkQueueElement(**kwargs): a new element
NewElement(id, wf, parent, status, jobs, t) ==
    [NoDoc EXCEPT !.Id = id, !.Status = status, !.RequestName = wf, !.ParentQueueId = parent,
                  !.Jobs = jobs, !.UpdateTime = t, !.InsertTime = t,
                  !.StartPolicy = startPolicy(wf)]

\* policy.supportsWorkAddition(): true for Block and Dataset only
supportsWorkAddition(policyName) == policyName \in {"Block", "Dataset"}

EmptyColl(ids) == [i \in ids |-> NoDoc]
NoPolicyCall == [els |-> <<>>, parent |-> NoDoc, T |-> [num |-> 1, den |-> 1], res |-> <<>>]
IdlePull == [pc |-> "idle", work |-> {}, stale |-> {}]
NoIngest == [pc |-> "idle", wf |-> None, team |-> None]
NoCall == [raised |-> None, ret |-> 0]
NoMatcherCall == [cands |-> <<>>, jobSlots |-> <<>>, siteJobCounts |-> <<>>, numElems |-> 0,
                  matched |-> <<>>, done |-> FALSE]
\* no setup step is running: each factory holds its own global parameters (one value
\* stands for the nine the decorator saves, alters and restores together), the
\* decorator is bound to no factory and stores nothing; pc, conf and before are
\* the position, the task configuration and the parameters at the start of the
\* call each factory has in progress
NoSetup == [glob |-> [f \in Factories |-> IF f = "A" THEN "globalA" ELSE "globalB"],
            obj |-> None, stored |-> None,
            pc |-> [f \in Factories |-> "idle"],
            conf |-> [f \in Factories |-> None],
            before |-> [f \in Factories |-> None]]

Init ==
    /\ inbox = [q \in Queues |-> EmptyColl(DocIDs)]
    /\ elements = [q \in Queues |-> EmptyColl(ElementIDs)]
    /\ pull = [l \in Queues |-> IdlePull]
    /\ ingest = NoIngest
    /\ copies = [e \in ElementIDs |-> {}]
    /\ everInbox = [q \in Queues |-> {}]
    /\ admin = 0
    /\ conflicts = {}
    /\ subs = [e \in ElementIDs |-> 0]
    /\ tc = NoSetup
    /\ ss = NoPolicyCall
    /\ mt = NoMatcherCall
    /\ dbs = ElementIDs
    /\ last = NoCall

\* an operation `op` of queue q on `arg` returned the ids `ret` / raised `err`; the
\* exception and the number of ids returned are kept
Returned(op, q, arg, ret) == [raised |-> None, ret |-> Cardinality(ret)]
Raised(op, q, arg, err) == [raised |-> err, ret |-> 0]

(***************************************************************************)
(* The document store.  A write gives the document a new revision; a       *)
(* pullWork in flight that read an older revision of it holds a stale copy.*)
(***************************************************************************)
\* the pullWork calls in flight after the documents `ids` of queue q were written
Touch(q, ids) ==
    IF q # GlobalQ THEN pull
    ELSE [l \in Queues |-> [pull[l] EXCEPT !.stale = @ \cup (ids \cap pull[l].work)]]

\* copies are counted from the moment an element (again) becomes Available on
\* the global queue
Offered(q, new) ==
    IF q # GlobalQ THEN copies
    ELSE [e \in ElementIDs |->
            IF new[e].Status = "Available" /\ elements[q][e].Status # "Available"
            THEN {} ELSE copies[e]]

\* write the element collection of q; `ids` are the documents written
WriteElements(q, new, ids) ==
    /\ elements' = [elements EXCEPT ![q] = new]
    /\ pull' = Touch(q, ids)
    /\ copies' = Offered(q, new)

\* write the inbox collection of q
WriteInbox(q, new) ==
    /\ inbox' = [inbox EXCEPT ![q] = new]
    /\ everInbox' = [everInbox EXCEPT ![q] = @ \cup {i \in DocIDs : Present(new[i])}]

\* backend.getElements(RequestName=wf) / getInboxElements(WorkflowName=wf): ids
ElementsOf(q, wf) == {e \in ElementIDs : Present(elements[q][e]) /\ elements[q][e].RequestName = wf}
InboxOf(q, wf) == {i \in DocIDs : Present(inbox[q][i]) /\ inbox[q][i].RequestName = wf}
\* backend.getElementsForParent(inbound): ids
ElementsForParent(q, parent) ==
    {e \in ElementIDs : Present(elements[q][e]) /\ elements[q][e].ParentQueueId = parent}

(***************************************************************************)
(* Ingest on the global queue: queueWork, then processInboundWork.         *)
(***************************************************************************)
\* a queueWork that inserts the inbox element before it validates the request name
queueWorkInsertFirst(wf, request) ==
    /\ ingest.pc = "idle"
    /\ WriteInbox(GlobalQ,
          IF Present(inbox[GlobalQ][wf]) THEN inbox[GlobalQ]
          ELSE [inbox[GlobalQ] EXCEPT ![wf] = NewElement(wf, wf, None, "Negotiating", 0, now)])
    /\ IF request # None /\ request # wf
       THEN /\ last' = Raised("queueWork", GlobalQ, {wf}, "WorkQueueWMSpecError")
            /\ UNCHANGED ingest
       ELSE /\ ingest' = [pc |-> "split", wf |-> wf, team |-> None]
            /\ last' = Returned("queueWork", GlobalQ, {wf}, {})
    /\ UNCHANGED <<elements, pull, copies, admin, ss, dbs, mt, conflicts, subs, tc>>

\* a queueWork that goes on to split without an inbox element
queueWorkNoInsert(wf, request) ==
    /\ ingest.pc = "idle"
    /\ IF request # None /\ request # wf
       THEN /\ last' = Raised("queueWork", GlobalQ, {wf}, "WorkQueueWMSpecError")
            /\ UNCHANGED ingest
       ELSE /\ ingest' = [pc |-> "split", wf |-> wf, team |-> None]
            /\ last' = Returned("queueWork", GlobalQ, {wf}, {})
    /\ UNCHANGED <<inbox, everInbox, elements, pull, copies, admin, ss, dbs, mt, conflicts, subs, tc>>

\* a queueWork that creates a new inbox element whether or not there is one
queueWorkAlwaysCreates(wf, request) ==
    /\ ingest.pc = "idle"
    /\ IF request # None /\ request # wf
       THEN /\ last' = Raised("queueWork", GlobalQ, {wf}, "WorkQueueWMSpecError")
            /\ UNCHANGED <<inbox, everInbox, ingest>>
       ELSE /\ WriteInbox(GlobalQ,
                  [inbox[GlobalQ] EXCEPT ![wf] = NewElement(wf, wf, None, "Negotiating", 0, now)])
            /\ ingest' = [pc |-> "split", wf |-> wf, team |-> None]
            /\ last' = Returned("queueWork", GlobalQ, {wf}, {})
    /\ UNCHANGED <<elements, pull, copies, admin, ss, dbs, mt, conflicts, subs, tc>>

\* queueWork up to the insert of the inbox element (lines 617-633)
queueWork(wf, request) ==
    /\ ingest.pc = "idle"
    /\ IF request # None /\ request # wf
       THEN /\ last' = Raised("queueWork", GlobalQ, {wf}, "WorkQueueWMSpecError")
            /\ UNCHANGED <<inbox, everInbox, ingest>>
       ELSE /\ WriteInbox(GlobalQ,
                  IF Present(inbox[GlobalQ][wf]) THEN inbox[GlobalQ]
                  ELSE [inbox[GlobalQ] EXCEPT ![wf] = NewElement(wf, wf, None, "Negotiating", 0, now)])
            /\ ingest' = [pc |-> "split", wf |-> wf, team |-> None]
            /\ last' = Returned("queueWork", GlobalQ, {wf}, {})
    /\ UNCHANGED <<elements, pull, copies, admin, ss, dbs, mt, conflicts, subs, tc>>

\* the elements a start policy makes of an inbox element (policy(spec, task, ...))
SplitElements(el, wf, parent, ids, t) ==
    [e \in ElementIDs |->
        IF e \in ids /\ ~Present(el[e])
        THEN NewElement(e, wf, parent, "Available", JobsOf(e), t) ELSE el[e]]

\* _getTotalStats(units)['total_jobs'] over the elements `ids` of queue q
RECURSIVE TotalJobs(_, _)
TotalJobs(q, ids) ==
    IF ids = {} THEN 0
    ELSE LET e == CHOOSE x \in ids : TRUE
         IN elements[q][e].Jobs + TotalJobs(q, ids \ {e})

\* the units the start policy makes of the workflow's input: one for each block
\* the metadata service lists, without the blocks in `skip` (continuous mode)
Units(wf, skip) == (SplitOf(wf) \cap dbs) \ skip

\* a split that marks the inbox element Acquired before it inserts the elements,
\* so that an exception in between leaves an Acquired inbox element without them
queueWorkSplitAcquiresFirst(outcome) ==
    LET wf == ingest.wf
        work == ElementsForParent(GlobalQ, wf)
        units == Units(wf, {})
    IN
    /\ ingest.pc = "split"
    /\ ingest' = NoIngest
    /\ (work = {} /\ units = {}) => outcome \in {"terminal", "error"}
    /\ IF work # {}
       THEN /\ last' = Returned("processInboundWork", GlobalQ, {wf}, work)
            /\ UNCHANGED <<inbox, everInbox, elements, pull, copies>>
       ELSE IF outcome = "ok"
       THEN /\ WriteElements(GlobalQ,
                    SplitElements(elements[GlobalQ], wf, wf, units, now), units)
            /\ WriteInbox(GlobalQ, [inbox[GlobalQ] EXCEPT ![wf].Status = "Acquired",
                                                         ![wf].ProcessedInputs = units,
                                                         ![wf].UpdateTime = now])
            /\ last' = Returned("processInboundWork", GlobalQ, {wf}, units)
       ELSE IF outcome = "unsaved"
       THEN /\ WriteInbox(GlobalQ, [inbox[GlobalQ] EXCEPT ![wf].Status = "Acquired",
                                                         ![wf].UpdateTime = now])
            /\ last' = Raised("processInboundWork", GlobalQ, {wf}, "Exception")
            /\ UNCHANGED <<elements, pull, copies>>
       ELSE IF outcome = "terminal"
       THEN /\ WriteInbox(GlobalQ, [inbox[GlobalQ] EXCEPT ![wf].Status = "Failed",
                                                         ![wf].UpdateTime = now])
            /\ last' = Raised("processInboundWork", GlobalQ, {wf}, "TerminalSplitError")
            /\ UNCHANGED <<elements, pull, copies>>
       ELSE /\ last' = Raised("processInboundWork", GlobalQ, {wf}, "Exception")
            /\ UNCHANGED <<inbox, everInbox, elements, pull, copies>>
    /\ UNCHANGED <<admin, ss, dbs, mt, conflicts, subs, tc>>

\* a split that fails the workflow on any exception of the splitter
queueWorkSplitFailsOnAnyError(outcome) ==
    LET wf == ingest.wf
        work == ElementsForParent(GlobalQ, wf)
        units == Units(wf, {})
    IN
    /\ ingest.pc = "split"
    /\ ingest' = NoIngest
    /\ (work = {} /\ units = {}) => outcome \in {"terminal", "error"}
    /\ IF work # {}
       THEN /\ last' = Returned("processInboundWork", GlobalQ, {wf}, work)
            /\ UNCHANGED <<inbox, everInbox, elements, pull, copies>>
       ELSE IF outcome = "ok"
       THEN /\ WriteElements(GlobalQ,
                    SplitElements(elements[GlobalQ], wf, wf, units, now), units)
            /\ WriteInbox(GlobalQ, [inbox[GlobalQ] EXCEPT ![wf].Status = "Acquired",
                                                         ![wf].ProcessedInputs = units,
                                                         ![wf].UpdateTime = now])
            /\ last' = Returned("processInboundWork", GlobalQ, {wf}, units)
       ELSE IF outcome = "unsaved"
       THEN /\ WriteElements(GlobalQ,
                    SplitElements(elements[GlobalQ], wf, wf, units, now), units)
            /\ last' = Raised("processInboundWork", GlobalQ, {wf}, "Exception")
            /\ UNCHANGED <<inbox, everInbox>>
       ELSE /\ WriteInbox(GlobalQ, [inbox[GlobalQ] EXCEPT ![wf].Status = "Failed",
                                                         ![wf].UpdateTime = now])
            /\ last' = Raised("processInboundWork", GlobalQ, {wf},
                              IF outcome = "terminal" THEN "TerminalSplitError" ELSE "Exception")
            /\ UNCHANGED <<elements, pull, copies>>
    /\ UNCHANGED <<admin, ss, dbs, mt, conflicts, subs, tc>>

\* processInboundWork(inbound, throw=True) as queueWork calls it (line 635);
\* `outcome` is what happens in the split: "ok", a terminal exception of the
\* splitter ("terminal"), another exception before anything is written ("error"),
\* or an exception of the inbox update after the elements were inserted
\* ("unsaved"); a splitter with no unit to make raises the terminal exception
queueWorkSplit(outcome) ==
    LET wf == ingest.wf
        work == ElementsForParent(GlobalQ, wf)
        units == Units(wf, {})
    IN
    /\ ingest.pc = "split"
    /\ ingest' = NoIngest
    /\ (work = {} /\ units = {}) => outcome \in {"terminal", "error"}
    \* the inbox element was deleted in the meantime: its update cannot succeed
    /\ (wf \in everInbox[GlobalQ] /\ ~Present(inbox[GlobalQ][wf]))
          => outcome \in {"unsaved", "error"}
    /\ IF work # {}
       THEN \* already split - Resuming
            /\ last' = Returned("processInboundWork", GlobalQ, {wf}, work)
            /\ UNCHANGED <<inbox, everInbox, elements, pull, copies>>
       ELSE IF outcome = "ok"
       THEN /\ WriteElements(GlobalQ,
                    SplitElements(elements[GlobalQ], wf, wf, units, now), units)
            /\ WriteInbox(GlobalQ, [inbox[GlobalQ] EXCEPT ![wf].Status = "Acquired",
                                                         ![wf].ProcessedInputs = units,
                                                         ![wf].UpdateTime = now])
            /\ last' = Returned("processInboundWork", GlobalQ, {wf}, units)
       ELSE IF outcome = "unsaved"
       THEN /\ WriteElements(GlobalQ,
                    SplitElements(elements[GlobalQ], wf, wf, units, now), units)
            /\ last' = Raised("processInboundWork", GlobalQ, {wf}, "Exception")
            /\ UNCHANGED <<inbox, everInbox>>
       ELSE IF outcome = "terminal"
       THEN /\ WriteInbox(GlobalQ, [inbox[GlobalQ] EXCEPT ![wf].Status = "Failed",
                                                         ![wf].UpdateTime = now])
            /\ last' = Raised("processInboundWork", GlobalQ, {wf}, "TerminalSplitError")
            /\ UNCHANGED <<elements, pull, copies>>
       ELSE /\ last' = Raised("processInboundWork", GlobalQ, {wf}, "Exception")
            /\ UNCHANGED <<inbox, everInbox, elements, pull, copies>>
    /\ UNCHANGED <<admin, ss, dbs, mt, conflicts, subs, tc>>

\* a continuous split that asks no policy whether it supports work addition
addWorkAnyPolicy(wf, outcome) ==
    LET inbound == inbox[GlobalQ][wf]
        units == Units(wf, inbound.ProcessedInputs)
    IN
    /\ outcome \in {"ok", "error", "terminal"}
    /\ IF ~Present(inbound) \/ units = {} \/ outcome \in {"error", "terminal"}
       THEN /\ last' = Returned("addWork", GlobalQ, {wf}, {})
            /\ UNCHANGED <<inbox, everInbox, elements, pull, copies>>
       ELSE /\ WriteElements(GlobalQ,
                    SplitElements(elements[GlobalQ], wf, wf, units, now),
                    {e \in units : ~Present(elements[GlobalQ][e])})
            /\ WriteInbox(GlobalQ, [inbox[GlobalQ] EXCEPT ![wf].ProcessedInputs = units,
                                                         ![wf].UpdateTime = now])
            /\ last' = Returned("addWork", GlobalQ, {wf}, units)
    /\ UNCHANGED <<ingest, admin, ss, dbs, mt, conflicts, subs, tc>>

\* addWork(requestName): processInboundWork(inbound, throw=True, continuous=True)
\* (lines 638-655, 1066-1118).  The start policy skips the blocks in the inbox
\* element's ProcessedInputs; an exception in the split is logged and the call
\* returns 0; the inbox update writes the inputs of the units of this call
addWork(wf, outcome) ==
    LET inbound == inbox[GlobalQ][wf]
        units == Units(wf, inbound.ProcessedInputs)
    IN
    /\ outcome \in {"ok", "error", "terminal"}
    /\ IF \/ ~Present(inbound) \/ units = {} \/ outcome \in {"error", "terminal"}
          \/ ~supportsWorkAddition(inbound.StartPolicy)
       THEN /\ last' = Returned("addWork", GlobalQ, {wf}, {})
            /\ UNCHANGED <<inbox, everInbox, elements, pull, copies>>
       ELSE /\ WriteElements(GlobalQ,
                    SplitElements(elements[GlobalQ], wf, wf, units, now),
                    {e \in units : ~Present(elements[GlobalQ][e])})
            /\ WriteInbox(GlobalQ, [inbox[GlobalQ] EXCEPT ![wf].ProcessedInputs = units,
                                                         ![wf].UpdateTime = now])
            /\ last' = Returned("addWork", GlobalQ, {wf}, units)
    /\ UNCHANGED <<ingest, admin, ss, dbs, mt, conflicts, subs, tc>>

\* the metadata service lists a new block of a workflow's input dataset
NewBlock(e) ==
    /\ e \notin dbs
    /\ dbs' = dbs \cup {e}
    /\ last' = Returned("dbs", None, {e}, {e})
    /\ UNCHANGED <<inbox, elements, pull, ingest, copies, everInbox, admin, ss, mt, conflicts, subs, tc>>

(***************************************************************************)
(* Replicate down: pullWork of a local queue, in two store operations.     *)
(***************************************************************************)
\* a condition check that does not look for transfers still in flight
pullWorkConditionCheckNoLeftOver(l) ==
    LET still_processing == {i \in DocIDs : inbox[l][i].Status = "Negotiating"}
    IN /\ ParentQueueCouchUrl(l) # None
       /\ still_processing = {}

\* pullWorkConditionCheck
pullWorkConditionCheck(l) ==
    LET left_over == {e \in ElementIDs : elements[GlobalQ][e].Status = "Negotiating"
                                          /\ elements[GlobalQ][e].ChildQueueUrl = QueueURL(l)}
        still_processing == {i \in DocIDs : inbox[l][i].Status = "Negotiating"}
    IN /\ ParentQueueCouchUrl(l) # None
       /\ left_over = {}
       /\ still_processing = {}

\* parent_queue.availableWork(resources, jobCounts, teams, numElems): the sets of
\* elements the parent's matcher may return
availableWork(q, numElems) ==
    {w \in SUBSET {e \in ElementIDs : elements[q][e].Status = "Available"} :
        Cardinality(w) <= numElems}

\* pullWork up to getAvailableWorkfromParent (lines 787-797); `resources` says
\* whether there are free slots, `work` is what the parent's matcher returns
pullWork(l, resources, work) ==
    /\ pull[l].pc = "idle"
    /\ work \in availableWork(GlobalQ, WorkPerCycle)
    /\ (~pullWorkConditionCheck(l) \/ ~resources) => work = {}
    /\ IF ~pullWorkConditionCheck(l) \/ ~resources \/ work = {}
       THEN /\ last' = Returned("pullWork", l, {}, {})
            /\ UNCHANGED pull
       ELSE /\ pull' = [pull EXCEPT ![l] = [pc |-> "assign", work |-> work, stale |-> {}]]
            /\ last' = Returned("getAvailableWorkfromParent", l, work, work)
    /\ UNCHANGED <<inbox, elements, ingest, copies, everInbox, admin, ss, dbs, mt, conflicts, subs, tc>>

\* a store that writes whatever revision it is given
saveElementsAnyRevision(l, ids) == ids

\* parent_queue.saveElements(*elements): the documents whose revision is still the
\* one that was read are written, the others are refused
saveElements(l, ids) == ids \ pull[l].stale

\* an assignment that reports every element it was given, saved or refused
_assignToChildQueueCountsAll(l) ==
    LET saved == saveElements(l, pull[l].work)
        new == [e \in ElementIDs |->
                  IF e \in saved
                  THEN [elements[GlobalQ][e] EXCEPT !.Status = "Negotiating",
                                                   !.ChildQueueUrl = QueueURL(l),
                                                   !.ParentQueueUrl = ParentQueueCouchUrl(l),
                                                   !.WMBSUrl = WMBSUrl(l),
                                                   !.UpdateTime = now]
                  ELSE elements[GlobalQ][e]]
    IN
    /\ pull[l].pc = "assign"
    /\ elements' = [elements EXCEPT ![GlobalQ] = new]
    /\ pull' = [Touch(GlobalQ, saved) EXCEPT ![l] = IdlePull]
    /\ copies' = Offered(GlobalQ, new)
    /\ last' = Returned("_assignToChildQueue", l, pull[l].work, pull[l].work)
    /\ UNCHANGED <<inbox, ingest, everInbox, admin, ss, dbs, mt, conflicts, subs, tc>>

\* _assignToChildQueue(queue, *elements) (line 799)
_assignToChildQueue(l) ==
    LET saved == saveElements(l, pull[l].work)
        new == [e \in ElementIDs |->
                  IF e \in saved
                  THEN [elements[GlobalQ][e] EXCEPT !.Status = "Negotiating",
                                                   !.ChildQueueUrl = QueueURL(l),
                                                   !.ParentQueueUrl = ParentQueueCouchUrl(l),
                                                   !.WMBSUrl = WMBSUrl(l),
                                                   !.UpdateTime = now]
                  ELSE elements[GlobalQ][e]]
    IN
    /\ pull[l].pc = "assign"
    /\ elements' = [elements EXCEPT ![GlobalQ] = new]
    /\ pull' = [Touch(GlobalQ, saved) EXCEPT ![l] = IdlePull]
    /\ copies' = Offered(GlobalQ, new)
    /\ last' = Returned("_assignToChildQueue", l, pull[l].work, saved)
    /\ UNCHANGED <<inbox, ingest, everInbox, admin, ss, dbs, mt, conflicts, subs, tc>>

(***************************************************************************)
(* Replication between the parent's elements and the child's inbox.        *)
(***************************************************************************)
\* the order of the state machine: s is at or before t
Leq(s, t) ==
    \/ s = t
    \/ s \in {"Available", "Negotiating"} /\ t # "Absent"
    \/ s = "Acquired" /\ t \in {"Running", "Done", "Failed", "CancelRequested", "Canceled"}
    \/ s = "Running" /\ t \in {"Done", "Failed", "CancelRequested", "Canceled"}
    \/ s = "CancelRequested" /\ t = "Canceled"

Max(a, b) == IF a >= b THEN a ELSE b

\* a store that overwrites the copy with what is delivered
MergeOverwriting(target, source) == source

\* the merge rule of the store: the status moves only forward along the state
\* machine, the percentages take the maximum
Merge(target, source) ==
    IF ~Present(target) THEN source
    ELSE [target EXCEPT
            !.Status = IF Leq(target.Status, source.Status) THEN source.Status
                       ELSE target.Status,
            !.PercentComplete = Max(target.PercentComplete, source.PercentComplete),
            !.PercentSuccess = Max(target.PercentSuccess, source.PercentSuccess),
            !.UpdateTime = Max(target.UpdateTime, source.UpdateTime)]

\* an element assigned to l is copied into l's inbox
ReplicateDown(l, e) ==
    LET d == elements[GlobalQ][e]
        m == Merge(inbox[l][e], d)
    IN
    /\ Present(d) /\ d.ChildQueueUrl = QueueURL(l)
    /\ m # inbox[l][e]
    /\ WriteInbox(l, [inbox[l] EXCEPT ![e] = m])
    /\ copies' = [copies EXCEPT ![e] = @ \cup {l}]
    /\ last' = Returned("replicate", l, {e}, {e})
    /\ UNCHANGED <<elements, pull, ingest, admin, ss, dbs, mt, conflicts, subs, tc>>

\* the status of l's copy is replicated back to the parent's element
ReplicateUp(l, e) ==
    LET d == elements[GlobalQ][e]
        m == Merge(d, inbox[l][e])
    IN
    /\ Present(d) /\ d.ChildQueueUrl = QueueURL(l)
    /\ Present(inbox[l][e])
    /\ m # d
    /\ WriteElements(GlobalQ, [elements[GlobalQ] EXCEPT ![e] = m], {e})
    /\ last' = Returned("replicate", GlobalQ, {e}, {e})
    /\ UNCHANGED <<inbox, everInbox, ingest, admin, ss, dbs, mt, conflicts, subs, tc>>

(***************************************************************************)
(* processInboundWork of a local queue (no request given).                 *)
(***************************************************************************)
\* backend.fixConflicts(): the queues with unresolved conflicts once those of the
\* store of q are resolved
fixConflicts(q) == conflicts \ {q}

\* backend.getElementsForSplitting()
ElementsForSplitting(q) == {i \in DocIDs : inbox[q][i].Status = "Negotiating"}

\* processInboundWork(): `terminal` and `failing` are the inbox elements whose split
\* raises a terminal / another exception
processInboundWork(l, terminal, failing) ==
    LET inbound_work == ElementsForSplitting(l)
        tosplit == {i \in inbound_work : ElementsForParent(l, i) = {}}
        ok == tosplit \ (terminal \cup failing)
        el == [e \in ElementIDs |->
                 IF e \in ok
                 THEN NewElement(e, inbox[l][e].RequestName, e, "Available", inbox[l][e].Jobs, now)
                 ELSE elements[l][e]]
        ib == [i \in DocIDs |->
                 IF i \in ok THEN [inbox[l][i] EXCEPT !.Status = "Acquired", !.UpdateTime = now]
                 ELSE IF i \in tosplit \cap terminal
                 THEN [inbox[l][i] EXCEPT !.Status = "Failed", !.UpdateTime = now]
                 ELSE inbox[l][i]]
    IN
    /\ inbound_work # {} \/ l \in conflicts
    /\ terminal \subseteq tosplit /\ failing \subseteq tosplit \ terminal
    /\ conflicts' = IF LocalQueueFlag(l) THEN fixConflicts(l) ELSE conflicts
    /\ WriteElements(l, el, ok)
    /\ WriteInbox(l, ib)
    /\ last' = Returned("processInboundWork", l, inbound_work,
                        (inbound_work \ tosplit) \cup ok)
    /\ UNCHANGED <<ingest, admin, ss, dbs, mt, subs, tc>>

(***************************************************************************)
(* Inject: getWork of a local queue.                                       *)
(***************************************************************************)
\* the subscription WMBSHelper.createSubscriptionAndAddFiles makes for an element
SubscriptionOf(e) == 1

\* a getWork that lets the first exception of an adapter escape: nothing of the
\* batch is injected
getWorkAbortsBatch(l, matches, failing, unsaved) ==
    /\ PopulateFilesets(l)
    /\ matches \in availableWork(l, WorkPerCycle)
    /\ matches # {}
    /\ failing \subseteq matches /\ unsaved = {}
    /\ IF failing = {}
       THEN /\ WriteElements(l, [e \in ElementIDs |->
                                   IF e \in matches
                                   THEN [elements[l][e] EXCEPT !.Status = "Running",
                                                               !.SubscriptionId = SubscriptionOf(e),
                                                               !.UpdateTime = now]
                                   ELSE elements[l][e]], matches)
            /\ last' = Returned("getWork", l, matches, matches)
       ELSE /\ last' = Raised("getWork", l, matches, "Exception")
            /\ UNCHANGED <<elements, pull, copies>>
    /\ UNCHANGED <<inbox, everInbox, ingest, admin, ss, dbs, mt, conflicts, subs, tc>>

\* getWork(jobSlots, siteJobCounts): `matches` is what the matcher returns,
\* `failing` are the matches for which DBS/PhEDEx or WMBS raises before a
\* subscription exists, `unsaved` those whose subscription was created and whose
\* updateElements raised; both are skipped and stay as they are in the store
getWork(l, matches, failing, unsaved) ==
    LET results == matches \ (failing \cup unsaved)
        el == [e \in ElementIDs |->
                 IF e \in results
                 THEN [elements[l][e] EXCEPT !.Status = "Running",
                                             !.SubscriptionId = SubscriptionOf(e),
                                             !.UpdateTime = now]
                 ELSE elements[l][e]]
    IN
    /\ PopulateFilesets(l)
    /\ matches \in availableWork(l, WorkPerCycle)
    /\ matches # {}
    /\ failing \subseteq matches /\ unsaved \subseteq matches \ failing
    /\ \A e \in unsaved : subs[e] < MaxSubs
    /\ subs' = [e \in ElementIDs |-> IF e \in unsaved THEN subs[e] + 1 ELSE subs[e]]
    /\ WriteElements(l, el, results)
    /\ last' = Returned("getWork", l, matches, results)
    /\ UNCHANGED <<inbox, everInbox, ingest, admin, ss, dbs, mt, conflicts, tc>>

(***************************************************************************)
(* The end policy SingleShot, over a list of elements and one parent.      *)
(***************************************************************************)
\* params['EndPolicySettings']['SuccessThreshold'] as a fraction num/den
DefaultThreshold == [num |-> 1, den |-> 1]

RECURSIVE SumJobs(_)
SumJobs(els) == IF els = <<>> THEN 0 ELSE Head(els).Jobs + SumJobs(Tail(els))

RECURSIVE SumSuccess(_)
SumSuccess(els) ==
    IF els = <<>> THEN 0 ELSE Head(els).PercentSuccess * Head(els).Jobs + SumSuccess(Tail(els))

RECURSIVE SumComplete(_)
SumComplete(els) ==
    IF els = <<>> THEN 0 ELSE Head(els).PercentComplete * Head(els).Jobs + SumComplete(Tail(els))

\* a policy that wants more than the threshold
SuccessAbove(els, T) == SumSuccess(els) * T.den > T.num * 100 * SumJobs(els)

\* success = sum(PercentSuccess * Jobs) / sum(Jobs), normalized to [0,1], >= T
SuccessAtLeast(els, T) == SumSuccess(els) * T.den >= T.num * 100 * SumJobs(els)

\* a policy that looks for a cancellation request at the first element only
SingleShotStatusFirstElement(els, parent, T) ==
    IF els # <<>> /\ els[1].Status = "CancelRequested" THEN "CancelRequested"
    ELSE IF inEndState(parent) THEN parent.Status
    ELSE IF parent.Status = "CancelRequested" THEN "CancelRequested"
    ELSE IF els = <<>> THEN "Negotiating"
    ELSE IF \A i \in 1..Len(els) : inEndState(els[i]) \/ els[i].Status = "CancelRequested"
    THEN IF SuccessAtLeast(els, T) THEN "Done" ELSE "Failed"
    ELSE "Running"

\* a policy that does not look for cancellation requests among the elements
SingleShotStatusNoRequest(els, parent, T) ==
    IF inEndState(parent) THEN parent.Status
    ELSE IF parent.Status = "CancelRequested" THEN "CancelRequested"
    ELSE IF els = <<>> THEN "Negotiating"
    ELSE IF \A i \in 1..Len(els) : inEndState(els[i]) \/ els[i].Status = "CancelRequested"
    THEN IF SuccessAtLeast(els, T) THEN "Done" ELSE "Failed"
    ELSE "Running"

\* the aggregate status
SingleShotStatus(els, parent, T) ==
    IF \E i \in 1..Len(els) : els[i].Status = "CancelRequested" THEN "CancelRequested"
    ELSE IF inEndState(parent) THEN parent.Status
    ELSE IF parent.Status = "CancelRequested" THEN "CancelRequested"
    ELSE IF els = <<>> THEN "Negotiating"
    ELSE IF \A i \in 1..Len(els) : inEndState(els[i])
    THEN IF SuccessAtLeast(els, T) THEN "Done" ELSE "Failed"
    ELSE "Running"

\* SingleShot(elements, [parent], SuccessThreshold=T): the result for the parent
SingleShot(els, parent, T) ==
    [ParentQueueId |-> parent.Id,
     Status |-> SingleShotStatus(els, parent, T),
     PercentComplete |-> IF SumJobs(els) = 0 THEN parent.PercentComplete
                         ELSE SumComplete(els) \div SumJobs(els),
     PercentSuccess |-> IF SumJobs(els) = 0 THEN parent.PercentSuccess
                        ELSE SumSuccess(els) \div SumJobs(els)]

\* endPolicy(elements, parents, settings): one result per parent, over the
\* elements split from it
endPolicy(els, parents, T) ==
    [i \in 1..Len(parents) |->
        SingleShot(SelectSeq(els, LAMBDA x : x.ParentQueueId = parents[i].Id), parents[i], T)]

(***************************************************************************)
(* Cancellation.                                                           *)
(***************************************************************************)
\* a queue's two collections, as the operations below transform them
Store(q) == [ib |-> inbox[q], el |-> elements[q]]

\* the outcomes of killWMBSWorkflow for the workflows wfs: the sets of workflows
\* whose kill succeeds (a global queue kills nothing)
KillOutcomes(q, wfs) == IF LocalQueueFlag(q) /\ PopulateFilesets(q) THEN SUBSET wfs ELSE {{}}

SetStatus(coll, ids, status, t) ==
    [i \in DOMAIN coll |-> IF i \in ids THEN [coll[i] EXCEPT !.Status = status, !.UpdateTime = t]
                           ELSE coll[i]]

MaxOf(S) == CHOOSE x \in S : \A y \in S : y <= x

\* a local-queue branch that cancels the inbox elements of every workflow, killed or not
cancelWorkLocalIgnoringKill(q, st, requestNames, inbox_elements, killed, t) ==
    [st EXCEPT !.ib = SetStatus(st.ib, {i \in inbox_elements : st.ib[i].Status # "Canceled"},
                                "Canceled", t)]

\* the local-queue branch of cancelWork (lines 532-552); `killed` are the
\* workflows for which killWMBSWorkflow succeeds
cancelWorkLocal(q, st, requestNames, inbox_elements, killed, t) ==
    LET badWfsCancel == IF PopulateFilesets(q) THEN requestNames \ killed ELSE {}
        kept == {i \in inbox_elements : st.ib[i].RequestName \notin badWfsCancel}
    IN [st EXCEPT !.ib = SetStatus(st.ib, {i \in kept : st.ib[i].Status # "Canceled"},
                                   "Canceled", t)]

\* a global-queue branch that cancels at once, whether or not a child holds the element
cancelWorkGlobalNoChildCheck(q, st, elems, inbox_elements, t) ==
    LET elements_to_cancel == {e \in elems : st.el[e].Status # "Canceled"}
        ib1 == SetStatus(st.ib, {i \in inbox_elements : st.ib[i].Status # "CancelRequested"
                                                         /\ ~inEndState(st.ib[i])},
                         "CancelRequested", t)
    IN [ib |-> ib1, el |-> SetStatus(st.el, elements_to_cancel, "Canceled", t)]

\* a global-queue branch that never gives up on a child
cancelWorkGlobalNoGrace(q, st, elems, inbox_elements, t) ==
    LET elements_to_cancel ==
            {e \in elems : st.el[e].ChildQueueUrl = None /\ st.el[e].Status # "Canceled"}
        elements_not_requested ==
            {e \in elems : st.el[e].ChildQueueUrl # None
                           /\ st.el[e].Status # "CancelRequested" /\ ~inEndState(st.el[e])}
        el1 == SetStatus(st.el, elements_to_cancel, "Canceled", t)
        el2 == SetStatus(el1, elements_not_requested, "CancelRequested", t)
        ib1 == SetStatus(st.ib, {i \in inbox_elements : st.ib[i].Status # "CancelRequested"
                                                         /\ ~inEndState(st.ib[i])},
                         "CancelRequested", t)
    IN [ib |-> ib1, el |-> el2]

\* a global-queue branch whose cancel request does not check for end states
cancelWorkGlobalAnyStatus(q, st, elems, inbox_elements, t) ==
    LET elements_to_cancel ==
            {e \in elems : st.el[e].ChildQueueUrl = None /\ st.el[e].Status # "Canceled"}
        elements_not_requested ==
            {e \in elems : st.el[e].ChildQueueUrl # None /\ st.el[e].Status # "CancelRequested"}
        el1 == SetStatus(st.el, elements_to_cancel, "Canceled", t)
        el2 == SetStatus(el1, elements_not_requested, "CancelRequested", t)
        ib1 == SetStatus(st.ib, {i \in inbox_elements : st.ib[i].Status # "CancelRequested"
                                                         /\ ~inEndState(st.ib[i])},
                         "CancelRequested", t)
        stalled == /\ cancelGraceTime > 0
                   /\ elems # {}
                   /\ (t - MaxOf({st.el[e].UpdateTime : e \in elems})) > cancelGraceTime
        el3 == IF stalled
               THEN SetStatus(el2, {e \in elems : ~inEndState(st.el[e])}, "Canceled", t)
               ELSE el2
    IN [ib |-> ib1, el |-> el3]

\* a global-queue branch that gives up on a child as soon as the grace time is reached
cancelWorkGlobalGraceInclusive(q, st, elems, inbox_elements, t) ==
    LET elements_to_cancel ==
            {e \in elems : st.el[e].ChildQueueUrl = None /\ st.el[e].Status # "Canceled"}
        elements_not_requested ==
            {e \in elems : st.el[e].ChildQueueUrl # None
                           /\ st.el[e].Status # "CancelRequested" /\ ~inEndState(st.el[e])}
        el1 == SetStatus(st.el, elements_to_cancel, "Canceled", t)
        el2 == SetStatus(el1, elements_not_requested, "CancelRequested", t)
        ib1 == SetStatus(st.ib, {i \in inbox_elements : st.ib[i].Status # "CancelRequested"
                                                         /\ ~inEndState(st.ib[i])},
                         "CancelRequested", t)
        stalled == /\ cancelGraceTime > 0
                   /\ elems # {}
                   /\ (t - MaxOf({st.el[e].UpdateTime : e \in elems})) >= cancelGraceTime
        el3 == IF stalled
               THEN SetStatus(el2, {e \in elems : ~inEndState(st.el[e])}, "Canceled", t)
               ELSE el2
    IN [ib |-> ib1, el |-> el3]

\* the global-queue branch of cancelWork (lines 555-587)
cancelWorkGlobal(q, st, elems, inbox_elements, t) ==
    LET elements_to_cancel ==
            {e \in elems : st.el[e].ChildQueueUrl = None /\ st.el[e].Status # "Canceled"}
        elements_not_requested ==
            {e \in elems : st.el[e].ChildQueueUrl # None
                           /\ st.el[e].Status # "CancelRequested" /\ ~inEndState(st.el[e])}
        el1 == SetStatus(st.el, elements_to_cancel, "Canceled", t)
        el2 == SetStatus(el1, elements_not_requested, "CancelRequested", t)
        ib1 == SetStatus(st.ib, {i \in inbox_elements : st.ib[i].Status # "CancelRequested"
                                                         /\ ~inEndState(st.ib[i])},
                         "CancelRequested", t)
        stalled == /\ cancelGraceTime > 0
                   /\ elems # {}
                   /\ (t - MaxOf({st.el[e].UpdateTime : e \in elems})) > cancelGraceTime
        el3 == IF stalled
               THEN SetStatus(el2, {e \in elems : ~inEndState(st.el[e])}, "Canceled", t)
               ELSE el2
    IN [ib |-> ib1, el |-> el3]

\* cancelWork(elementIDs=ids, WorkflowName=wf) on the store st of queue q; ids is
\* ElementIDs when no ids are given, wf is None when no workflow is given
cancelWork(q, st, ids, wf, killed, t) ==
    LET elems == {e \in ids : Present(st.el[e]) /\ (wf = None \/ st.el[e].RequestName = wf)}
        requestNames == {st.el[e].RequestName : e \in elems} \cup ({wf} \ {None})
        inbox_elements == {i \in DocIDs : Present(st.ib[i]) /\ st.ib[i].RequestName \in requestNames}
    IN IF requestNames = {} THEN st
       ELSE IF LocalQueueFlag(q)
       THEN cancelWorkLocal(q, st, requestNames, inbox_elements, killed, t)
       ELSE cancelWorkGlobal(q, st, elems, inbox_elements, t)

\* what cancelWork returns: the ids of the elements it selected
cancelWorkReturn(st, ids, wf) ==
    {e \in ids : Present(st.el[e]) /\ (wf = None \/ st.el[e].RequestName = wf)}

Changed(old, new) == {i \in DOMAIN old : old[i] # new[i]}

\* commit a transformed store
Commit(q, st) ==
    /\ WriteElements(q, st.el, Changed(elements[q], st.el))
    /\ WriteInbox(q, st.ib)

\* the RPC cancelWork(WorkflowName=wf) / cancelWork(elementIDs=ids)
cancelWorkCall(q, ids, wf, killed) ==
    /\ Commit(q, cancelWork(q, Store(q), ids, wf, killed, now))
    /\ last' = Returned("cancelWork", q, {}, cancelWorkReturn(Store(q), ids, wf))
    /\ UNCHANGED <<ingest, admin, ss, dbs, mt, conflicts, subs, tc>>

(***************************************************************************)
(* Administrative RPCs: setStatus, doneWork, resetWork.                    *)
(***************************************************************************)
\* a setStatus that writes Canceled like any other status
setStatusPlain(q, status, ids, wf, killed) ==
    LET affected == {e \in ids : Present(elements[q][e])
                                 /\ (wf = None \/ elements[q][e].RequestName = wf)}
    IN
    /\ admin < MaxAdmin
    /\ admin' = admin + 1
    /\ IF affected = {}
       THEN /\ last' = Raised("setStatus", q, {}, "WorkQueueNoMatchingElements")
            /\ UNCHANGED <<inbox, everInbox, elements, pull, copies>>
       ELSE /\ WriteElements(q, SetStatus(elements[q], affected, status, now), affected)
            /\ last' = Returned("setStatus", q, {}, affected)
            /\ UNCHANGED <<inbox, everInbox>>
    /\ UNCHANGED <<ingest, ss, dbs, mt, conflicts, subs, tc>>

\* setStatus(status, elementIDs=ids, WorkflowName=wf)
setStatus(q, status, ids, wf, killed) ==
    LET affected == {e \in ids : Present(elements[q][e])
                                 /\ (wf = None \/ elements[q][e].RequestName = wf)}
    IN
    /\ admin < MaxAdmin
    /\ admin' = admin + 1
    /\ IF status = "Canceled"
       THEN /\ Commit(q, cancelWork(q, Store(q), ids, wf, killed, now))
            /\ last' = Returned("setStatus", q, {}, cancelWorkReturn(Store(q), ids, wf))
       ELSE IF affected = {}
       THEN /\ last' = Raised("setStatus", q, {}, "WorkQueueNoMatchingElements")
            /\ UNCHANGED <<inbox, everInbox, elements, pull, copies>>
       ELSE /\ WriteElements(q, SetStatus(elements[q], affected, status, now), affected)
            /\ last' = Returned("setStatus", q, {}, affected)
            /\ UNCHANGED <<inbox, everInbox>>
    /\ UNCHANGED <<ingest, ss, dbs, mt, conflicts, subs, tc>>

\* doneWork(elementIDs=ids, WorkflowName=wf)
doneWork(q, ids, wf) == setStatus(q, "Done", ids, wf, {})

\* backend.updateElements(*ids, **fields) for Status, ChildQueueUrl, WMBSUrl
updateElements(coll, ids, status, child, wmbs, t) ==
    [e \in DOMAIN coll |->
        IF e \in ids /\ Present(coll[e])
        THEN [coll[e] EXCEPT !.Status = status, !.ChildQueueUrl = child,
                             !.WMBSUrl = wmbs, !.UpdateTime = t]
        ELSE coll[e]]

\* resetWork(ids)
resetWork(q, ids) ==
    /\ admin < MaxAdmin
    /\ admin' = admin + 1
    /\ \E e \in ids : Present(elements[q][e])
    /\ WriteElements(q, updateElements(elements[q], ids, "Available", None, None, now),
                     {e \in ids : Present(elements[q][e])})
    /\ last' = Returned("resetWork", q, {}, {e \in ids : Present(elements[q][e])})
    /\ UNCHANGED <<inbox, everInbox, ingest, ss, dbs, mt, conflicts, subs, tc>>

(***************************************************************************)
(* Reconcile: performSyncAndCancelAction.                                  *)
(***************************************************************************)
ElementOrder == <<"e1", "e2", "e3">>
DocOrder == <<"W1", "W2", "e1", "e2", "e3">>
WorkflowOrder == <<"W1", "W2">>

\* WorkQueueElement.updateFromSubscription(wmbs)
updateFromSubscription(d, wmbs) ==
    IF d.SubscriptionId # 0
    THEN [d EXCEPT !.PercentComplete = wmbs.percent_complete,
                   !.PercentSuccess = wmbs.percent_success]
    ELSE d

\* what wmbsSubscriptionStatus may report for a subscription
WMBSReports == {[percent_complete |-> 100, percent_success |-> 0],
                [percent_complete |-> 100, percent_success |-> 100]}

\* the loop over the results of the end policy (lines 932-968); st is the store as
\* the loop has left it, snap the store as it was read at the top of the
\* workflow's turn, els the elements with the progress WMBS reports
RECURSIVE performResults(_, _, _, _, _, _, _, _)
performResults(q, st, snap, els, results, wf, killed, t) ==
    IF results = <<>> THEN st
    ELSE
    LET result == Head(results)
        p == result.ParentQueueId
        mine == {e \in ElementIDs : Present(els[e]) /\ els[e].ParentQueueId = p}
        canceled == cancelWorkReturn(st, ElementIDs, wf)
        st1 == IF result.Status = "CancelRequested"
               THEN cancelWork(q, st, ElementIDs, wf, killed, t) ELSE st
        modified == \/ snap.ib[p].Status # result.Status
                    \/ snap.ib[p].PercentComplete # result.PercentComplete
                    \/ snap.ib[p].PercentSuccess # result.PercentSuccess
        \* saveElements(parent): refused when the document changed since it was read
        st2 == IF modified /\ st1.ib[p] = snap.ib[p]
               THEN [st1 EXCEPT !.ib[p] = [@ EXCEPT !.Status = result.Status,
                                                    !.PercentComplete = result.PercentComplete,
                                                    !.PercentSuccess = result.PercentSuccess,
                                                    !.UpdateTime = t]]
               ELSE st1
        updated_elements == {e \in mine : els[e] # snap.el[e]}
        \* updateElements(x.id, **x.statusMetrics())
        st3 == [st2 EXCEPT !.el = [e \in ElementIDs |->
                    IF e \in updated_elements
                    THEN [st2.el[e] EXCEPT !.Status = els[e].Status,
                                           !.PercentComplete = els[e].PercentComplete,
                                           !.PercentSuccess = els[e].PercentSuccess,
                                           !.UpdateTime = t]
                    ELSE st2.el[e]]]
    IN IF result.Status = "CancelRequested" /\ canceled # {}
       THEN st1                                                   \* break
       ELSE IF result.Status = "Negotiating"
       THEN performResults(q, st1, snap, els, Tail(results), wf, killed, t)   \* continue
       ELSE IF result.Status \in EndStates
       THEN performResults(q, st2, snap, els, Tail(results), wf, killed, t)   \* continue
       ELSE performResults(q, st3, snap, els, Tail(results), wf, killed, t)

\* the turn of one workflow in the loop of performSyncAndCancelAction
performWorkflow(q, st, wf, useWMBS, wmbs, killed, t) ==
    LET els == [e \in ElementIDs |->
                  IF useWMBS /\ Present(st.el[e]) /\ st.el[e].RequestName = wf
                  THEN updateFromSubscription(st.el[e], wmbs) ELSE st.el[e]]
        mine == SelectSeq(ElementOrder, LAMBDA e : Present(els[e]) /\ els[e].RequestName = wf)
        parents == SelectSeq(DocOrder, LAMBDA i : Present(st.ib[i]) /\ st.ib[i].RequestName = wf)
        results == endPolicy([i \in 1..Len(mine) |-> els[mine[i]]],
                             [i \in 1..Len(parents) |-> st.ib[parents[i]]], DefaultThreshold)
    IN performResults(q, st, st, els, results, wf, killed, t)

RECURSIVE performWorkflows(_, _, _, _, _, _, _)
performWorkflows(q, st, wfs, useWMBS, wmbs, killed, t) ==
    IF wfs = <<>> THEN st
    ELSE performWorkflows(q, performWorkflow(q, st, Head(wfs), useWMBS, wmbs, killed, t),
                          Tail(wfs), useWMBS, wmbs, killed, t)

\* backend.getWorkflows(includeInbox=True)
getWorkflows(q) ==
    SelectSeq(WorkflowOrder, LAMBDA w : ElementsOf(q, w) # {} \/ InboxOf(q, w) # {})

\* performSyncAndCancelAction(skipWMBS); wmbs is what WMBS reports, killed the
\* workflows for which killWMBSWorkflow succeeds
performSyncAndCancelAction(q, skipWMBS, wmbs, killed) ==
    LET useWMBS == ~skipWMBS /\ LocalQueueFlag(q)
    IN
    /\ getWorkflows(q) # <<>> \/ (LocalQueueFlag(q) /\ q \in conflicts)
    /\ conflicts' = IF LocalQueueFlag(q) THEN fixConflicts(q) ELSE conflicts
    /\ Commit(q, performWorkflows(q, Store(q), getWorkflows(q), useWMBS, wmbs, killed, now))
    /\ last' = Returned("performSyncAndCancelAction", q, {}, {})
    /\ UNCHANGED <<ingest, admin, ss, dbs, mt, subs, tc>>

\* the inputs of performSyncAndCancelAction that make a difference at queue q:
\* only a local queue that populates filesets asks WMBS and kills workflows
SyncInputs(q, wfs) ==
    IF LocalQueueFlag(q)
    THEN {[skipWMBS |-> FALSE, wmbs |-> w, killed |-> k] :
              w \in WMBSReports, k \in KillOutcomes(q, wfs)}
         \cup {[skipWMBS |-> TRUE, wmbs |-> CHOOSE w \in WMBSReports : TRUE, killed |-> k] :
                  k \in KillOutcomes(q, wfs)}
    ELSE {[skipWMBS |-> TRUE, wmbs |-> CHOOSE w \in WMBSReports : TRUE, killed |-> {}]}

(***************************************************************************)
(* The clock.                                                              *)
(***************************************************************************)
Ago(t) == IF t > 0 THEN t - 1 ELSE 0

Older(coll) ==
    [i \in DOMAIN coll |->
        IF Present(coll[i])
        THEN [coll[i] EXCEPT !.UpdateTime = Ago(@), !.InsertTime = Ago(@),
                             !.TimestampFoundNewData = Ago(@)]
        ELSE coll[i]]

Tick ==
    /\ inbox' = [q \in Queues |-> Older(inbox[q])]
    /\ elements' = [q \in Queues |-> Older(elements[q])]
    /\ <<inbox', elements'>> # <<inbox, elements>>
    /\ last' = Returned("tick", None, {}, {})
    /\ UNCHANGED <<pull, ingest, copies, everInbox, admin, ss, dbs, mt, conflicts, subs, tc>>

(***************************************************************************)
(* setPriority.                                                            *)
(***************************************************************************)
\* a setPriority that updates every element of the queue
setPriorityAllWorkflows(q, newpriority, workflowNames) ==
    /\ ElementsOf(q, "W1") \cup ElementsOf(q, "W2") # {}
    /\ WriteElements(q, [e \in ElementIDs |->
                            IF Present(elements[q][e])
                            THEN [elements[q][e] EXCEPT !.Priority = newpriority,
                                                        !.UpdateTime = now]
                            ELSE elements[q][e]],
                     ElementsOf(q, "W1") \cup ElementsOf(q, "W2"))
    /\ last' = Returned("setPriority", q, {}, {})
    /\ UNCHANGED <<inbox, everInbox, ingest, admin, ss, dbs, mt, conflicts, subs, tc>>

\* setPriority(newpriority, *workflowNames)
setPriority(q, newpriority, workflowNames) ==
    LET affected == UNION {ElementsOf(q, wf) : wf \in workflowNames}
    IN
    /\ IF affected = {}
       THEN /\ last' = Raised("setPriority", q, {}, "RuntimeError")
            /\ UNCHANGED <<elements, pull, copies>>
       ELSE /\ WriteElements(q, [e \in ElementIDs |->
                                   IF e \in affected
                                   THEN [elements[q][e] EXCEPT !.Priority = newpriority,
                                                               !.UpdateTime = now]
                                   ELSE elements[q][e]], affected)
            /\ last' = Returned("setPriority", q, {}, {})
    /\ UNCHANGED <<inbox, everInbox, ingest, admin, ss, dbs, mt, conflicts, subs, tc>>

(***************************************************************************)
(* Deletion: deleteWorkflows and deleteCompletedWFElements.                *)
(***************************************************************************)
\* backend.deleteElements(request) for an inbox element: the inbox element and
\* the elements split from it are deleted
deleteElements(st, id) ==
    [ib |-> [st.ib EXCEPT ![id] = NoDoc],
     el |-> [e \in DOMAIN st.el |->
                IF Present(st.el[e]) /\ st.el[e].ParentQueueId = id THEN NoDoc ELSE st.el[e]]]

\* the loop of deleteWorkflows over its requests (lines 593-603); a request without
\* an inbox element ends it with the IndexError of request[0]
RECURSIVE deleteRequests(_, _)
deleteRequests(st, requests) ==
    IF requests = <<>> THEN [st |-> st, raised |-> None, deleted |-> {}]
    ELSE LET request == Head(requests)
         IN IF ~Present(st.ib[request])
            THEN [st |-> st, raised |-> "IndexError", deleted |-> {}]
            ELSE IF inEndState(st.ib[request])
            THEN LET rest == deleteRequests(deleteElements(st, request), Tail(requests))
                 IN [rest EXCEPT !.deleted = @ \cup {request}]
            ELSE deleteRequests(st, Tail(requests))

\* a deleteWorkflows that deletes every request, finished or not
deleteWorkflowsUnchecked(q, requests) ==
    LET named == {requests[k] : k \in 1..Len(requests)}
    IN
    /\ requests # <<>>
    /\ Commit(q, [ib |-> [i \in DOMAIN inbox[q] |-> IF i \in named THEN NoDoc ELSE inbox[q][i]],
                  el |-> [e \in DOMAIN elements[q] |->
                            IF elements[q][e].ParentQueueId \in named THEN NoDoc
                            ELSE elements[q][e]]])
    /\ last' = Returned("deleteWorkflows", q, {}, {})
    /\ UNCHANGED <<ingest, admin, ss, dbs, mt, conflicts, subs, tc>>

\* deleteWorkflows(*requests)
deleteWorkflows(q, requests) ==
    LET r == deleteRequests(Store(q), requests)
    IN
    /\ requests # <<>>
    /\ Commit(q, r.st)
    /\ last' = IF r.raised = None THEN Returned("deleteWorkflows", q, {}, {})
               ELSE Raised("deleteWorkflows", q, {}, r.raised)
    /\ UNCHANGED <<ingest, admin, ss, dbs, mt, conflicts, subs, tc>>

\* the statuses a request has in the request manager
ActiveStates == {"assigned", "running-open"}
\* deletableStates with a status of a request that is still active
deletableStatesAndRunning ==
    {"completed", "closed-out", "failed", "announced", "aborted-completed", "rejected",
     "normal-archived", "aborted-archived", "rejected-archived", "running-open"}

deletableStates ==
    {"completed", "closed-out", "failed", "announced", "aborted-completed", "rejected",
     "normal-archived", "aborted-archived", "rejected-archived"}

\* requestDB.getRequestByNames(reqNames): for each name its RequestStatus, None
\* when the request manager has no record of it
RequestInfos(reqNames) == [reqNames -> deletableStates \cup ActiveStates \cup {None}]

\* backend.deleteWQElementsByWorkflow(workflows): every element and inbox element
\* of the workflows is deleted
deleteWQElementsByWorkflow(st, workflows) ==
    [ib |-> [i \in DOMAIN st.ib |->
                IF Present(st.ib[i]) /\ st.ib[i].RequestName \in workflows THEN NoDoc ELSE st.ib[i]],
     el |-> [e \in DOMAIN st.el |->
                IF Present(st.el[e]) /\ st.el[e].RequestName \in workflows THEN NoDoc ELSE st.el[e]]]

\* deleteCompletedWFElements(); requestsInfo is what the request manager reports
deleteCompletedWFElements(q, requestsInfo) ==
    LET reqNames == {getWorkflows(q)[k] : k \in 1..Len(getWorkflows(q))}
        toDelete == {key \in reqNames : \/ requestsInfo[key] = None
                                               \/ requestsInfo[key] \in deletableStates}
    IN
    /\ reqNames # {}
    /\ requestsInfo \in RequestInfos(reqNames)
    /\ last' = Returned("deleteCompletedWFElements", q, {}, toDelete)
    /\ Commit(q, deleteWQElementsByWorkflow(Store(q), toDelete))
    /\ UNCHANGED <<ingest, admin, ss, dbs, mt, conflicts, subs, tc>>

(***************************************************************************)
(* Closing of open workflows: closeWork.                                   *)
(***************************************************************************)
\* policyInstance.newDataAvailable(topLevelTask, element) of the Block policy: the
\* metadata service lists a block that is not among the element's ProcessedInputs
newDataAvailable(wf) ==
    /\ supportsWorkAddition(inbox[GlobalQ][wf].StartPolicy)
    /\ Units(wf, inbox[GlobalQ][wf].ProcessedInputs) # {}

\* max(childrenElements, key=lambda x: x.timestamp).timestamp: the time the last
\* child element was created
LastChildTimestamp(q, wf) ==
    LET children == ElementsForParent(q, wf)
    IN elements[q][CHOOSE c \in children :
                      \A d \in children : elements[q][d].InsertTime <= elements[q][c].InsertTime
                  ].InsertTime

\* a check that asks for new data and looks at the children whatever the timeout
closeCheckAlwaysTimed(q, wf) ==
    LET element == inbox[q][wf]
    IN IF newDataAvailable(wf) THEN "newdata"
       ELSE IF ElementsForParent(q, wf) = {} THEN "keep"
       ELSE IF now - Max(element.TimestampFoundNewData, LastChildTimestamp(q, wf))
                  > element.OpenRunningTimeout
       THEN "close" ELSE "keep"

\* a check that looks at the age of the children before it asks for new data
closeCheckAgeFirst(q, wf) ==
    LET element == inbox[q][wf]
    IN IF element.OpenRunningTimeout = 0 THEN "close"
       ELSE IF /\ ElementsForParent(q, wf) # {}
               /\ now - Max(element.TimestampFoundNewData, LastChildTimestamp(q, wf))
                     > element.OpenRunningTimeout
       THEN "close"
       ELSE IF newDataAvailable(wf) THEN "newdata"
       ELSE "keep"

\* the open inbox elements closeWork() checks (lines 825-869), and for each what
\* it finds: "close", "newdata" or "keep"
closeCheck(q, wf) ==
    LET element == inbox[q][wf]
    IN IF element.OpenRunningTimeout = 0 THEN "close"
       ELSE IF newDataAvailable(wf) THEN "newdata"
       ELSE IF ElementsForParent(q, wf) = {} THEN "keep"
       ELSE IF now - Max(element.TimestampFoundNewData, LastChildTimestamp(q, wf))
                  > element.OpenRunningTimeout
       THEN "close" ELSE "keep"

workflowsToCheck(q) == {w \in Workflows : Present(inbox[q][w]) /\ inbox[q][w].OpenForNewData}

\* closeWork(*workflows); failing are the workflows for which loading the spec or
\* asking the start policy raises. The loop has no handler of its own: the first
\* open element with a timeout whose check raises ends the call, after the
\* TimestampFoundNewData of the elements before it was written and before
\* anything is closed.
closeWork(q, workflows, failing) ==
    LET open == workflowsToCheck(q)
        raising == {w \in open \cap failing : inbox[q][w].OpenRunningTimeout # 0}
        Before(w) == {v \in Workflows :
                        \E i, j \in 1..Len(WorkflowOrder) :
                           i <= j /\ WorkflowOrder[i] = v /\ WorkflowOrder[j] = w}
        reached == {w \in open : Before(w) \cap raising = {}}
        found == IF workflows # {} THEN {}
                 ELSE {w \in reached : closeCheck(q, w) = "newdata"}
        workflowsToClose == IF workflows # {} THEN workflows
                            ELSE IF raising # {} THEN {}
                            ELSE {w \in open : closeCheck(q, w) = "close"}
    IN
    /\ failing \subseteq (IF workflows = {} /\ ~LocalQueueFlag(q) THEN open ELSE {})
    /\ IF LocalQueueFlag(q)
       THEN /\ last' = Returned("closeWork", q, workflows, {})
            /\ UNCHANGED <<inbox, everInbox>>
       ELSE /\ WriteInbox(q, [w \in DOMAIN inbox[q] |->
                    IF ~Present(inbox[q][w]) THEN inbox[q][w]
                    ELSE IF w \in found
                    THEN [inbox[q][w] EXCEPT !.TimestampFoundNewData = now, !.UpdateTime = now]
                    ELSE IF w \in workflowsToClose
                    THEN [inbox[q][w] EXCEPT !.OpenForNewData = FALSE, !.UpdateTime = now]
                    ELSE inbox[q][w]])
            /\ last' = IF workflows = {} /\ raising # {}
                       THEN Raised("closeWork", q, workflows, "Exception")
                       ELSE Returned("closeWork", q, workflows, workflowsToClose)
    /\ UNCHANGED <<elements, pull, copies, ingest, admin, ss, dbs, mt, conflicts, subs, tc>>

(***************************************************************************)
(* The engine: the global queue and the local queue L1, the workflow W2    *)
(* (one element), every operation.                                         *)
(***************************************************************************)
Next ==
    \/ \E request \in {None, "W1", "W2"} : queueWork("W2", request)
    \/ \E outcome \in {"ok", "terminal", "error"} : queueWorkSplit(outcome)
    \/ \E resources \in BOOLEAN, work \in SUBSET SplitOf("W2") : pullWork("L1", resources, work)
    \/ _assignToChildQueue("L1")
    \/ \E e \in SplitOf("W2") : ReplicateDown("L1", e)
    \/ \E e \in SplitOf("W2") : ReplicateUp("L1", e)
    \/ \E terminal \in SUBSET SplitOf("W2"), failing \in SUBSET SplitOf("W2") :
          processInboundWork("L1", terminal, failing)
    \/ \E matches \in SUBSET SplitOf("W2"), failing \in SUBSET SplitOf("W2") :
          getWork("L1", matches, failing, {})
    \/ \E q \in {GlobalQ, "L1"} : \E killed \in KillOutcomes(q, {"W2"}) :
          cancelWorkCall(q, ElementIDs, "W2", killed)
    \/ \E q \in {GlobalQ, "L1"}, status \in Statuses, e \in SplitOf("W2") :
          \E killed \in (IF status = "Canceled" THEN KillOutcomes(q, {"W2"}) ELSE {{}}) :
             setStatus(q, status, {e}, None, killed)
    \/ \E q \in {GlobalQ, "L1"} : doneWork(q, ElementIDs, "W2")
    \/ \E q \in {GlobalQ, "L1"}, e \in SplitOf("W2") : resetWork(q, {e})
    \/ \E q \in {GlobalQ, "L1"} : \E in \in SyncInputs(q, {"W2"}) :
          performSyncAndCancelAction(q, in.skipWMBS, in.wmbs, in.killed)

Spec == Init /\ [][Next]_vars

(***************************************************************************)
(* Concurrent pulls: one workflow on the global queue, two local queues    *)
(* that pull from it, and the operator who resets elements.                *)
(***************************************************************************)
NextPull ==
    \/ queueWork("W1", None)
    \/ queueWorkSplit("ok")
    \/ \E l \in LocalQs, resources \in BOOLEAN, work \in SUBSET SplitOf("W1") :
          pullWork(l, resources, work)
    \/ \E l \in LocalQs : _assignToChildQueue(l)
    \/ \E l \in LocalQs, e \in SplitOf("W1") : ReplicateDown(l, e)
    \/ \E l \in LocalQs, e \in SplitOf("W1") : ReplicateUp(l, e)
    \/ \E l \in LocalQs : processInboundWork(l, {}, {})
    \/ \E e \in SplitOf("W1") : resetWork(GlobalQ, {e})
    \/ pullWork(GlobalQ, TRUE, {})

SpecPull == Init /\ [][NextPull]_vars

(***************************************************************************)
(* Cancellation on the global queue: the workflow W1 (two elements), the   *)
(* local queue L1 that pulls from it, the clock, and cancelWork.           *)
(***************************************************************************)
NextCancel ==
    \/ queueWork("W1", None)
    \/ \E outcome \in {"ok", "terminal"} : queueWorkSplit(outcome)
    \/ \E work \in SUBSET SplitOf("W1") : pullWork("L1", TRUE, work)
    \/ _assignToChildQueue("L1")
    \/ \E e \in SplitOf("W1") : ReplicateDown("L1", e)
    \/ \E e \in SplitOf("W1") : ReplicateUp("L1", e)
    \/ processInboundWork("L1", {}, {})
    \/ \E e \in SplitOf("W1") : doneWork(GlobalQ, {e}, None)
    \/ cancelWorkCall(GlobalQ, ElementIDs, "W1", {})
    \/ Tick

SpecCancel == Init /\ [][NextCancel]_vars

(***************************************************************************)
(* Reconciliation of a cancel: the workflow W2 (one element) on the global *)
(* queue and on the local queue L1, the reconcile cycles of both queues,   *)
(* replication and the clock, all of them fair.                            *)
(***************************************************************************)
\* what a reconcile cycle of q meets while the cancel is reconciled: the local
\* queue runs performSyncAndCancelAction(skipWMBS=False), WMBS reports a finished
\* subscription the same way on every cycle, and a kill may fail or succeed
ReconcileInputs(q) ==
    IF LocalQueueFlag(q)
    THEN {[skipWMBS |-> FALSE, wmbs |-> [percent_complete |-> 100, percent_success |-> 100],
           killed |-> k] : k \in KillOutcomes(q, {"W2"})}
    ELSE SyncInputs(q, {"W2"})

ReconcileGlobal ==
    \E in \in ReconcileInputs(GlobalQ) :
        performSyncAndCancelAction(GlobalQ, in.skipWMBS, in.wmbs, in.killed)
ReconcileLocal ==
    \E in \in ReconcileInputs("L1") :
        performSyncAndCancelAction("L1", in.skipWMBS, in.wmbs, in.killed)
ReplicateDownL1 == \E e \in SplitOf("W2") : ReplicateDown("L1", e)
ReplicateUpL1 == \E e \in SplitOf("W2") : ReplicateUp("L1", e)

NextReconcile ==
    \/ queueWork("W2", None)
    \/ queueWorkSplit("ok")
    \/ \E work \in SUBSET SplitOf("W2") : pullWork("L1", TRUE, work)
    \/ _assignToChildQueue("L1")
    \/ ReplicateDownL1
    \/ ReplicateUpL1
    \/ processInboundWork("L1", {}, {})
    \/ \E matches \in SUBSET SplitOf("W2") : getWork("L1", matches, {}, {})
    \/ doneWork("L1", ElementIDs, "W2")
    \/ cancelWorkCall(GlobalQ, ElementIDs, "W2", {})
    \/ ReconcileGlobal
    \/ ReconcileLocal
    \/ Tick

\* two writers, or a replication and a writer, leave a document of the store of q
\* with conflicting revisions
Conflict(q) ==
    /\ q \notin conflicts
    /\ \E wf \in Workflows : ElementsOf(q, wf) # {} \/ InboxOf(q, wf) # {}
    /\ conflicts' = conflicts \cup {q}
    /\ last' = Returned("conflict", q, {}, {})
    /\ UNCHANGED <<inbox, elements, pull, ingest, copies, everInbox, admin, ss, dbs, mt, subs, tc>>

\* the periodic operations of the local queue L1 and of the global queue on a
\* store that may hold conflicts, with a getWork whose store update may fail
\* after the subscription was created
NextCycle ==
    \/ queueWork("W2", None)
    \/ queueWorkSplit("ok")
    \/ \E work \in SUBSET SplitOf("W2") : pullWork("L1", TRUE, work)
    \/ _assignToChildQueue("L1")
    \/ ReplicateDownL1
    \/ ReplicateUpL1
    \/ processInboundWork("L1", {}, {})
    \/ \E matches \in SUBSET SplitOf("W2"), unsaved \in SUBSET SplitOf("W2") :
          getWork("L1", matches, {}, unsaved)
    \/ ReconcileGlobal
    \/ ReconcileLocal
    \/ \E q \in {GlobalQ, "L1"} : Conflict(q)

SpecCycle == Init /\ [][NextCycle]_vars

\* ENABLED <<reconcile cycle of q>>_vars as a state predicate: the cycle has
\* workflows to go through and, for some input, changes the store or what the
\* last call returned
CanReconcile(q) ==
    /\ getWorkflows(q) # <<>>
    /\ \E in \in ReconcileInputs(q) :
          \/ performWorkflows(q, Store(q), getWorkflows(q), ~in.skipWMBS /\ LocalQueueFlag(q),
                              in.wmbs, in.killed, now) # Store(q)
          \/ last # Returned("performSyncAndCancelAction", q, {}, {})

\* weak fairness of the reconcile cycles, WF_vars(ReconcileGlobal) and
\* WF_vars(ReconcileLocal), with ENABLED written out as CanReconcile
FairReconcile ==
    /\ []<>(~CanReconcile(GlobalQ)) \/ []<><<ReconcileGlobal>>_vars
    /\ []<>(~CanReconcile("L1")) \/ []<><<ReconcileLocal>>_vars

SpecReconcile ==
    /\ Init /\ [][NextReconcile]_vars
    /\ FairReconcile
    /\ WF_vars(ReplicateDownL1) /\ WF_vars(ReplicateUpL1)
    /\ WF_vars(Tick)

(***************************************************************************)
(* Cancellation on the local queue: both workflows on the global queue,    *)
(* the local queue L1 that pulls, splits and injects them, and cancelWork  *)
(* on L1, by RPC and from its reconcile cycle, with kills that may fail.   *)
(***************************************************************************)
NextLocalCancel ==
    \/ \E wf \in Workflows : queueWork(wf, None)
    \/ queueWorkSplit("ok")
    \/ \E work \in SUBSET ElementIDs : pullWork("L1", TRUE, work)
    \/ _assignToChildQueue("L1")
    \/ \E e \in ElementIDs : ReplicateDown("L1", e)
    \/ processInboundWork("L1", {}, {})
    \/ \E matches \in SUBSET ElementIDs : getWork("L1", matches, {}, {})
    \/ \E wf \in Workflows : cancelWorkCall(GlobalQ, ElementIDs, wf, {})
    \/ \E wf \in Workflows \cup {None} : \E killed \in KillOutcomes("L1", Workflows) :
          cancelWorkCall("L1", ElementIDs, wf, killed)
    \/ \E killed \in KillOutcomes("L1", Workflows) :
          performSyncAndCancelAction("L1", TRUE, CHOOSE w \in WMBSReports : TRUE, killed)

SpecLocalCancel == Init /\ [][NextLocalCancel]_vars

(***************************************************************************)
(* Cancellation requests in the reconcile cycle: the workflow W1 (two      *)
(* elements) on the global queue and on the local queue L1, cancelled on   *)
(* the global queue or marked CancelRequested element by element, and the  *)
(* reconcile cycles of both queues.                                        *)
(***************************************************************************)
NextRequest ==
    \/ queueWork("W1", None)
    \/ queueWorkSplit("ok")
    \/ \E work \in SUBSET SplitOf("W1") : pullWork("L1", TRUE, work)
    \/ _assignToChildQueue("L1")
    \/ \E e \in SplitOf("W1") : ReplicateDown("L1", e)
    \/ processInboundWork("L1", {}, {})
    \/ \E matches \in SUBSET SplitOf("W1") : getWork("L1", matches, {}, {})
    \/ cancelWorkCall(GlobalQ, ElementIDs, "W1", {})
    \/ \E q \in {GlobalQ, "L1"}, e \in SplitOf("W1") :
          setStatus(q, "CancelRequested", {e}, None, {})
    \/ \E q \in {GlobalQ, "L1"} : \E in \in SyncInputs(q, {"W1"}) :
          performSyncAndCancelAction(q, in.skipWMBS, in.wmbs, in.killed)

SpecRequest == Init /\ [][NextRequest]_vars

(***************************************************************************)
(* The operator's setStatus: the workflow W1 (two elements) on the global  *)
(* queue and on the local queue L1, and one setStatus call on either, by   *)
(* element ids and by workflow name.                                       *)
(***************************************************************************)
\* the calls of setStatus an operator makes: the queue, the status, the element
\* ids, the workflow name (None: not given) and the outcome of the kill
SetStatusCalls ==
    {[q |-> q, status |-> st, ids |-> ids, wf |-> wf, killed |-> k] :
        q \in {GlobalQ, "L1"}, st \in {"Running", "Done", "Canceled"},
        ids \in (SUBSET SplitOf("W1")) \ {{}}, wf \in {None, "W2"},
        k \in SUBSET {"W1"}}

NextAdmin ==
    \/ queueWork("W1", None)
    \/ queueWorkSplit("ok")
    \/ \E work \in SUBSET SplitOf("W1") : pullWork("L1", TRUE, work)
    \/ _assignToChildQueue("L1")
    \/ \E e \in SplitOf("W1") : ReplicateDown("L1", e)
    \/ processInboundWork("L1", {}, {})
    \/ \E call \in SetStatusCalls :
          /\ call.killed \in (IF call.status = "Canceled"
                               THEN KillOutcomes(call.q, {"W1"}) ELSE {{}})
          /\ setStatus(call.q, call.status, call.ids, call.wf, call.killed)

SpecAdmin == Init /\ [][NextAdmin]_vars

(***************************************************************************)
(* Priorities: the workflows W1 and W2 on the global queue, the local      *)
(* queue L1 that pulls their elements, cancelWork, and setPriority.        *)
(***************************************************************************)
NextPriority ==
    \/ \E wf \in Workflows : queueWork(wf, None)
    \/ queueWorkSplit("ok")
    \/ \E work \in SUBSET ElementIDs : pullWork("L1", TRUE, work)
    \/ _assignToChildQueue("L1")
    \/ \E wf \in Workflows : cancelWorkCall(GlobalQ, ElementIDs, wf, {})
    \/ \E newpriority \in Priorities, workflowNames \in SUBSET Workflows :
          setPriority(GlobalQ, newpriority, workflowNames)

SpecPriority == Init /\ [][NextPriority]_vars

(***************************************************************************)
(* Deletion: the workflows W1 and W2 on the global queue; they are split,  *)
(* finished by the operator, cancelled, reconciled, and deleted.           *)
(***************************************************************************)
\* the lists of requests deleteWorkflows is called with
RequestLists == {<<a>> : a \in Workflows} \cup {<<a, b>> : a, b \in Workflows}

NextDelete ==
    \/ \E wf \in Workflows : queueWork(wf, None)
    \/ \E outcome \in {"ok", "unsaved"} : queueWorkSplit(outcome)
    \/ \E wf \in Workflows : doneWork(GlobalQ, ElementIDs, wf)
    \/ \E wf \in Workflows : cancelWorkCall(GlobalQ, ElementIDs, wf, {})
    \/ \E in \in SyncInputs(GlobalQ, Workflows) :
          performSyncAndCancelAction(GlobalQ, in.skipWMBS, in.wmbs, in.killed)
    \/ \E requests \in RequestLists : deleteWorkflows(GlobalQ, requests)

SpecDelete == Init /\ [][NextDelete]_vars

(***************************************************************************)
(* Archival: the workflows W1 and W2 on the global queue are split and     *)
(* cancelled, and the cleanup deletes what the request manager reports as  *)
(* finished or does not know.                                              *)
(***************************************************************************)
\* what the request manager reports in a run: any status for W1; for W2 a
\* finished request, an active one or no record
ReportedInfos ==
    {info \in RequestInfos(Workflows) \cup RequestInfos({"W1"}) \cup RequestInfos({"W2"}) :
        "W2" \in DOMAIN info => info["W2"] \in {"completed", "running-open", None}}

NextArchive ==
    \/ \E wf \in Workflows : queueWork(wf, None)
    \/ \E outcome \in {"ok", "unsaved"} : queueWorkSplit(outcome)
    \/ \E wf \in Workflows : cancelWorkCall(GlobalQ, ElementIDs, wf, {})
    \/ \E requestsInfo \in ReportedInfos : deleteCompletedWFElements(GlobalQ, requestsInfo)

SpecArchive == Init /\ [][NextArchive]_vars

(***************************************************************************)
(* Closing: the workflow W1 was queued on the global queue with a start    *)
(* policy that keeps it open for new data, with or without a timeout; it   *)
(* is split, blocks appear, the local queue L1 pulls, the clock ticks and  *)
(* closeWork runs. The workflow W2, split long ago into one element, is    *)
(* open too and has no timeout.                                            *)
(***************************************************************************)
\* StartPolicy['OpenRunningTimeout'], in clock ticks
OpenRunningTimeouts == {0, 1}

InitClose ==
    /\ \E timeout \in OpenRunningTimeouts :
          inbox = [q \in Queues |->
                     IF q = GlobalQ
                     THEN [EmptyColl(DocIDs) EXCEPT
                             !["W1"] = [NewElement("W1", "W1", None, "Negotiating", 0, now)
                                          EXCEPT !.OpenForNewData = TRUE,
                                                 !.OpenRunningTimeout = timeout],
                             !["W2"] = [NewElement("W2", "W2", None, "Acquired", 0, 0)
                                          EXCEPT !.OpenForNewData = TRUE]]
                     ELSE EmptyColl(DocIDs)]
    /\ elements = [q \in Queues |->
                     IF q = GlobalQ
                     THEN SplitElements(EmptyColl(ElementIDs), "W2", "W2", SplitOf("W2"), 0)
                     ELSE EmptyColl(ElementIDs)]
    /\ pull = [l \in Queues |-> IdlePull]
    /\ ingest = [pc |-> "split", wf |-> "W1", team |-> None]
    /\ copies = [e \in ElementIDs |-> {}]
    /\ everInbox = [q \in Queues |-> IF q = GlobalQ THEN {"W1", "W2"} ELSE {}]
    /\ admin = 0
    /\ conflicts = {}
    /\ subs = [e \in ElementIDs |-> 0]
    /\ tc = NoSetup
    /\ ss = NoPolicyCall
    /\ mt = NoMatcherCall
    /\ \E blocks \in SUBSET SplitOf("W1") : dbs = blocks \cup SplitOf("W2")
    /\ last = NoCall

NextClose ==
    \/ \E outcome \in {"ok", "terminal"} : queueWorkSplit(outcome)
    \/ \E wf \in Workflows : \E outcome \in {"ok", "error", "terminal"} : addWork(wf, outcome)
    \/ \E e \in SplitOf("W1") : NewBlock(e)
    \/ \E work \in SUBSET {"e1"} : pullWork("L1", TRUE, work)
    \/ _assignToChildQueue("L1")
    \/ \E q \in {GlobalQ, "L1"} : \E failing \in SUBSET Workflows : closeWork(q, {}, failing)
    \/ closeWork(GlobalQ, {"W1"}, {})
    \/ Tick

SpecClose == InitClose /\ [][NextClose]_vars

\* closeWork() repeated by its periodic task while time passes and no block is
\* added to the input of W1
NextExpire ==
    \/ \E outcome \in {"ok", "terminal"} : queueWorkSplit(outcome)
    \/ \E work \in SUBSET SplitOf("W1") : pullWork("L1", TRUE, work)
    \/ _assignToChildQueue("L1")
    \/ closeWork(GlobalQ, {}, {})
    \/ Tick

SpecExpire ==
    /\ InitClose /\ [][NextExpire]_vars
    /\ WF_vars(closeWork(GlobalQ, {}, {})) /\ WF_vars(Tick)

(***************************************************************************)
(* Injection: the workflow W1 (two elements) reaches the local queue L1,   *)
(* whose getWork injects it into WMBS while DBS/PhEDEx and WMBS may raise  *)
(* for any of the matched elements; the operator finishes and resets work. *)
(***************************************************************************)
NextInject ==
    \/ queueWork("W1", None)
    \/ queueWorkSplit("ok")
    \/ \E work \in SUBSET SplitOf("W1") : pullWork("L1", TRUE, work)
    \/ _assignToChildQueue("L1")
    \/ \E e \in SplitOf("W1") : ReplicateDown("L1", e)
    \/ \E e \in SplitOf("W1") : ReplicateUp("L1", e)
    \/ processInboundWork("L1", {}, {})
    \/ \E matches \in SUBSET SplitOf("W1"), failing \in SUBSET SplitOf("W1") :
          getWork("L1", matches, failing, {})
    \/ \E e \in SplitOf("W1") : doneWork("L1", {e}, None)
    \/ \E e \in SplitOf("W1") : resetWork("L1", {e})

SpecInject == Init /\ [][NextInject]_vars

(***************************************************************************)
(* TaskChain: two factories run setup steps decorated with                 *)
(* ParameterStorage; the decorator is one object per decorated method,     *)
(* shared by the factories, and the steps of two calls may interleave.     *)
(***************************************************************************)
\* ParameterStorage.__get__(instance, owner) when factory f looks the method up
\* for a call with the task configuration taskConf ("None": no override)
__get__(f, taskConf) ==
    /\ tc.pc[f] = "idle"
    /\ tc' = [tc EXCEPT !.obj = f, !.pc[f] = "bound", !.conf[f] = taskConf,
                        !.before[f] = tc.glob[f]]
    /\ last' = Returned("__get__", None, {}, {})
    /\ UNCHANGED <<inbox, elements, pull, ingest, copies, everInbox, admin, ss, dbs, mt,
                   conflicts, subs>>

\* the next statement of ParameterStorage.__call__(task, taskConf) for the call of
\* factory f: storeParameters, alterParameters, the wrapped function (which raises
\* or returns), restoreParameters, resetParameters
__call__(f, raises) ==
    LET pc == tc.pc[f]
    IN
    /\ pc # "idle"
    /\ raises => pc = "altered"
    /\ tc' = CASE pc = "bound" -> [tc EXCEPT !.stored = tc.glob[tc.obj], !.pc[f] = "stored"]
               [] pc = "stored" ->
                    [tc EXCEPT !.glob[tc.obj] = IF tc.conf[f] # None THEN tc.conf[f]
                                                ELSE tc.stored,
                               !.pc[f] = "altered"]
               [] pc = "altered" ->
                    IF raises
                    THEN [tc EXCEPT !.pc[f] = "idle", !.conf[f] = None, !.before[f] = None]
                    ELSE [tc EXCEPT !.pc[f] = "ran"]
               [] pc = "ran" -> [tc EXCEPT !.glob[tc.obj] = tc.stored, !.pc[f] = "restored"]
               [] pc = "restored" ->
                    [tc EXCEPT !.stored = None, !.pc[f] = "idle", !.conf[f] = None,
                               !.before[f] = None]
    /\ last' = IF raises THEN Raised("__call__", None, {}, "Exception")
               ELSE Returned("__call__", None, {}, {})
    /\ UNCHANGED <<inbox, elements, pull, ingest, copies, everInbox, admin, ss, dbs, mt,
                   conflicts, subs>>

NextTaskChain ==
    \/ \E f \in Factories, taskConf \in {None, "task"} : __get__(f, taskConf)
    \/ \E f \in Factories, raises \in BOOLEAN : __call__(f, raises)

SpecTaskChain == Init /\ [][NextTaskChain]_vars

(***************************************************************************)
(* Ingest: the workflow W1 is queued on the global queue while the         *)
(* metadata service lists its blocks one by one; splits may fail;         *)
(* addWork splits on; the local queue L1 pulls and splits; cancelWork     *)
(* runs on the global queue.                                               *)
(***************************************************************************)
InitIngest ==
    /\ inbox = [q \in Queues |-> EmptyColl(DocIDs)]
    /\ elements = [q \in Queues |-> EmptyColl(ElementIDs)]
    /\ pull = [l \in Queues |-> IdlePull]
    /\ ingest = NoIngest
    /\ copies = [e \in ElementIDs |-> {}]
    /\ everInbox = [q \in Queues |-> {}]
    /\ admin = 0
    /\ conflicts = {}
    /\ subs = [e \in ElementIDs |-> 0]
    /\ tc = NoSetup
    /\ ss = NoPolicyCall
    /\ mt = NoMatcherCall
    /\ dbs \in SUBSET SplitOf("W1")
    /\ last = NoCall

NextIngest ==
    \/ \E request \in {None} \cup Workflows : queueWork("W1", request)
    \/ \E outcome \in {"ok", "terminal", "error", "unsaved"} : queueWorkSplit(outcome)
    \/ \E outcome \in {"ok", "error"} : addWork("W1", outcome)
    \/ \E e \in SplitOf("W1") : NewBlock(e)
    \/ \E work \in SUBSET SplitOf("W1") : pullWork("L1", TRUE, work)
    \/ _assignToChildQueue("L1")
    \/ \E e \in SplitOf("W1") : ReplicateDown("L1", e)
    \/ \E e \in SplitOf("W1") : ReplicateUp("L1", e)
    \/ \E terminal \in SUBSET SplitOf("W1"), failing \in SUBSET SplitOf("W1") :
          processInboundWork("L1", terminal, failing)
    \/ cancelWorkCall(GlobalQ, ElementIDs, "W1", {})

SpecIngest == InitIngest /\ [][NextIngest]_vars

(***************************************************************************)
(* Resuming an interrupted split: queueWork of W1 is repeated for ever on   *)
(* the global queue, its split may succeed, fail before anything is        *)
(* inserted, or be interrupted after the elements are inserted; the local  *)
(* queue L1 pulls and splits what it pulled. Repetition is fair: queueWork *)
(* is called again and again, a split is not interrupted for ever, and the *)
(* local queue keeps processing its inbox.                                 *)
(***************************************************************************)
NextResume ==
    \/ queueWork("W1", None)
    \/ \E outcome \in {"ok", "unsaved", "error"} : queueWorkSplit(outcome)
    \/ \E work \in SUBSET SplitOf("W1") : pullWork("L1", TRUE, work)
    \/ _assignToChildQueue("L1")
    \/ \E e \in SplitOf("W1") : ReplicateDown("L1", e)
    \/ \E failing \in SUBSET SplitOf("W1") : processInboundWork("L1", {}, failing)

SpecResume ==
    /\ InitIngest /\ [][NextResume]_vars
    /\ WF_vars(queueWork("W1", None))
    /\ SF_vars(queueWorkSplit("ok"))
    /\ WF_vars(processInboundWork("L1", {}, {}))

(***************************************************************************)
(* Delivery: the workflow W1 on the global queue, the local queue L1 that  *)
(* pulls, receives, splits and injects its elements, cancelWork and        *)
(* resetWork on the global queue; replication in both directions and the   *)
(* child's processInboundWork are fair.                                    *)
(***************************************************************************)
DeliverDown == \E e \in SplitOf("W1") : ReplicateDown("L1", e)
DeliverUp == \E e \in SplitOf("W1") : ReplicateUp("L1", e)
SplitInbound == processInboundWork("L1", {}, {})

NextDeliver ==
    \/ queueWork("W1", None)
    \/ queueWorkSplit("ok")
    \/ \E work \in SUBSET SplitOf("W1") : pullWork("L1", TRUE, work)
    \/ _assignToChildQueue("L1")
    \/ DeliverDown
    \/ DeliverUp
    \/ SplitInbound
    \/ \E terminal \in SUBSET SplitOf("W1") : processInboundWork("L1", terminal, {})
    \/ \E matches \in SUBSET SplitOf("W1") : getWork("L1", matches, {}, {})
    \/ cancelWorkCall(GlobalQ, ElementIDs, "W1", {})
    \/ \E e \in SplitOf("W1") : resetWork(GlobalQ, {e})

SpecDeliver ==
    /\ Init /\ [][NextDeliver]_vars
    /\ WF_vars(DeliverDown) /\ WF_vars(DeliverUp) /\ WF_vars(SplitInbound)

(***************************************************************************)
(* The end policy on its own: SingleShot(elements, [parent]).              *)
(***************************************************************************)
MaxJobs == 2
\* the (Status, PercentSuccess) an element given to the policy may have
PolicyKinds == {<<"Done", 100>>, <<"Failed", 0>>, <<"Running", 50>>,
                <<"CancelRequested", 0>>, <<"Available", 0>>}
PolicyElements ==
    {[NewElement("e1", "W1", "W1", k[1], j, now) EXCEPT !.PercentSuccess = k[2],
                                                   !.PercentComplete = k[2]] :
        k \in PolicyKinds, j \in 1..MaxJobs}
\* SuccessThreshold = num/10
Thresholds == {[num |-> n, den |-> 10] : n \in 0..10}

InitPolicy ==
    /\ inbox = [q \in Queues |-> EmptyColl(DocIDs)]
    /\ elements = [q \in Queues |-> EmptyColl(ElementIDs)]
    /\ pull = [l \in Queues |-> IdlePull]
    /\ ingest = NoIngest
    /\ copies = [e \in ElementIDs |-> {}]
    /\ everInbox = [q \in Queues |-> {}]
    /\ admin = 0
    /\ conflicts = {}
    /\ subs = [e \in ElementIDs |-> 0]
    /\ tc = NoSetup
    /\ dbs = ElementIDs
    /\ mt = NoMatcherCall
    /\ last = NoCall
    /\ \E n \in 0..MaxLen : \E els \in [1..n -> PolicyElements] : \E T \in Thresholds :
          ss = [els |-> els, parent |-> NewElement("W1", "W1", None, "Available", 0, now),
                T |-> T, res |-> <<>>]

applyPolicy ==
    /\ ss.res = <<>>
    /\ ss' = [ss EXCEPT !.res = endPolicy(ss.els, <<ss.parent>>, ss.T)]
    /\ last' = Returned("endPolicy", None, {}, {})
    /\ UNCHANGED <<inbox, elements, pull, ingest, copies, everInbox, admin, dbs, mt, conflicts, subs, tc>>

NextPolicy == applyPolicy

SpecPolicy == InitPolicy /\ [][NextPolicy]_vars

(***************************************************************************)
(* The matcher (backend.availableWork) applied on its own to a list of     *)
(* stored elements, an offer of free slots per site, the jobs already      *)
(* queued per site and priority, and a bound on the elements to return.    *)
(***************************************************************************)
Sites == {"X", "Y"}
\* the sites in alphabetical order
SiteOrder == <<"X", "Y">>
MaxCands == 2
MaxSlots == 2

\* the elements the store may hold when the matcher runs
MatcherElements(id) ==
    {[Id |-> id, Status |-> st, Priority |-> p, InsertTime |-> t, Jobs |-> j, PossibleSite |-> ps] :
        st \in {"Available", "Running"}, p \in Priorities, t \in 1..2, j \in 1..MaxJobs,
        ps \in {{"X"}, {"X", "Y"}}}
\* jobs already queued at a site at a priority or higher: fewer for a higher priority
SiteJobCounts ==
    {c \in [Sites -> [Priorities -> {0, MaxSlots}]] : \A s \in Sites : c[s][10] <= c[s][5]}
\* free slots of the sites that are offered
JobSlots == UNION {[D -> 0..MaxSlots] : D \in SUBSET Sites \ {{}}}

\* step 1: Available, and one of its possible sites is offered
Eligible(c, jobSlots) == c.Status = "Available" /\ c.PossibleSite \cap DOMAIN jobSlots # {}

\* an order that looks at the time of insertion only
SortsBeforeFifo(a, b) ==
    \/ a.InsertTime < b.InsertTime
    \/ a.InsertTime = b.InsertTime /\ a.Id < b.Id

\* step 2: sort by (-Priority, InsertTime); the store's own order decides a tie
SortsBefore(a, b) ==
    \/ a.Priority > b.Priority
    \/ a.Priority = b.Priority /\ a.InsertTime < b.InsertTime
    \/ a.Priority = b.Priority /\ a.InsertTime = b.InsertTime /\ a.Id < b.Id

RECURSIVE SortCands(_)
SortCands(S) ==
    IF S = {} THEN <<>>
    ELSE LET first == CHOOSE a \in S : \A b \in S \ {a} : SortsBefore(a, b)
         IN <<first>> \o SortCands(S \ {first})

\* a site test that does not look at the free slots
AcceptableAnywhere(c, site, slots, counts) ==
    site \in DOMAIN slots /\ site \in c.PossibleSite

\* step 3: the site is possible for the element, has free slots left, and the jobs
\* queued there at the element's priority or higher do not fill them
Acceptable(c, site, slots, counts) ==
    /\ site \in DOMAIN slots /\ site \in c.PossibleSite
    /\ slots[site] > 0
    /\ counts[site][c.Priority] < slots[site]

\* the first acceptable site in alphabetical order, or None
AcceptableSite(c, slots, counts) ==
    IF \E i \in 1..Len(SiteOrder) : Acceptable(c, SiteOrder[i], slots, counts)
    THEN SiteOrder[CHOOSE i \in 1..Len(SiteOrder) :
                      /\ Acceptable(c, SiteOrder[i], slots, counts)
                      /\ \A k \in 1..(i - 1) : ~Acceptable(c, SiteOrder[k], slots, counts)]
    ELSE None

\* steps 3 to 5 over the sorted candidates: place each at its site, take its Jobs
\* from the site's slots and add them to the site's counts, stop at numElems
RECURSIVE Match(_, _, _, _, _)
Match(cs, slots, counts, numElems, acc) ==
    IF cs = <<>> \/ Len(acc) >= numElems
    THEN [matched |-> acc, slots |-> slots, counts |-> counts]
    ELSE LET c == Head(cs)
             site == AcceptableSite(c, slots, counts)
         IN IF site = None
            THEN Match(Tail(cs), slots, counts, numElems, acc)
            ELSE Match(Tail(cs),
                       [slots EXCEPT ![site] = @ - c.Jobs],
                       [counts EXCEPT ![site] =
                           [p \in Priorities |-> IF p <= c.Priority THEN @[p] + c.Jobs ELSE @[p]]],
                       numElems,
                       Append(acc, [el |-> c, site |-> site]))

\* availableWork(jobSlots, siteJobCounts, numElems=numElems) over the stored
\* elements cands: (matched, remaining slots, updated counts)
Matcher(cands, jobSlots, siteJobCounts, numElems) ==
    Match(SortCands({cands[i] : i \in {k \in DOMAIN cands : Eligible(cands[k], jobSlots)}}),
          jobSlots, siteJobCounts, numElems, <<>>)

InitMatcher ==
    /\ inbox = [q \in Queues |-> EmptyColl(DocIDs)]
    /\ elements = [q \in Queues |-> EmptyColl(ElementIDs)]
    /\ pull = [l \in Queues |-> IdlePull]
    /\ ingest = NoIngest
    /\ copies = [e \in ElementIDs |-> {}]
    /\ everInbox = [q \in Queues |-> {}]
    /\ admin = 0
    /\ conflicts = {}
    /\ subs = [e \in ElementIDs |-> 0]
    /\ tc = NoSetup
    /\ ss = NoPolicyCall
    /\ dbs = ElementIDs
    /\ last = NoCall
    /\ \E n \in 0..MaxCands : \E cands \in [1..n -> UNION {MatcherElements(i) : i \in 1..n}] :
       \E jobSlots \in JobSlots, counts \in SiteJobCounts, numElems \in 1..WorkPerCycle :
          /\ \A i \in 1..n : cands[i].Id = i
          /\ mt = [cands |-> cands, jobSlots |-> jobSlots, siteJobCounts |-> counts,
                   numElems |-> numElems, matched |-> <<>>, done |-> FALSE]

\* one invocation of the matcher, as getWork and getAvailableWorkfromParent make it
matchWork ==
    /\ ~mt.done
    /\ mt' = [mt EXCEPT !.matched = Matcher(mt.cands, mt.jobSlots, mt.siteJobCounts,
                                            mt.numElems).matched,
                        !.done = TRUE]
    /\ last' = Returned("availableWork", None, {}, {})
    /\ UNCHANGED <<inbox, elements, pull, ingest, copies, everInbox, admin, ss, dbs, conflicts, subs, tc>>

NextMatcher == matchWork

SpecMatcher == InitMatcher /\ [][NextMatcher]_vars

(***************************************************************************)
(* Properties.                                                             *)
(***************************************************************************)
\* the Jobs of the elements of a list that are in the given statuses
RECURSIVE JobsIn(_, _)
JobsIn(els, statuses) ==
    IF els = <<>> THEN 0
    ELSE (IF Head(els).Status \in statuses THEN Head(els).Jobs ELSE 0)
         + JobsIn(Tail(els), statuses)

\* every element is Done with PercentSuccess 100 or Failed with PercentSuccess 0
AllFinished(els) ==
    \A i \in 1..Len(els) :
        \/ els[i].Status = "Done" /\ els[i].PercentSuccess = 100
        \/ els[i].Status = "Failed" /\ els[i].PercentSuccess = 0

\* C1: for a non-empty list of elements that are all Done (PercentSuccess 100) or
\* Failed (PercentSuccess 0) and a threshold T in [0,1], SingleShot(elements,
\* [parent]) returns exactly one result; its Status is Done if the Jobs of the Done
\* elements are at least the fraction T of all Jobs, and Failed otherwise.
C1_SingleShotThreshold ==
    (ss.res # <<>> /\ ss.els # <<>> /\ AllFinished(ss.els)) =>
        /\ Len(ss.res) = 1
        /\ ss.res[1].Status =
              IF JobsIn(ss.els, {"Done"}) * ss.T.den
                    >= ss.T.num * JobsIn(ss.els, {"Done", "Failed"})
              THEN "Done" ELSE "Failed"

\* the policy was applied to three finished elements, some Done and some Failed,
\* whose success is exactly the threshold, and gave Done
C1_Witness ==
    /\ ss.res # <<>> /\ Len(ss.els) = 3 /\ AllFinished(ss.els)
    /\ JobsIn(ss.els, {"Done"}) > 0 /\ JobsIn(ss.els, {"Failed"}) > 0
    /\ JobsIn(ss.els, {"Done"}) * ss.T.den = ss.T.num * JobsIn(ss.els, {"Done", "Failed"})
    /\ ss.res[1].Status = "Done"

\* C2: with two local queues pulling concurrently from the same parent no element
\* is acquired twice: since an element was last offered (became Available on the
\* parent) at most one local queue has received a copy of it, and that queue is
\* the one its ChildQueueUrl names.
C2_NoDoubleAcquire ==
    \A e \in ElementIDs :
        /\ Cardinality(copies[e]) <= 1
        /\ copies[e] \subseteq {elements[GlobalQ][e].ChildQueueUrl}

\* two local queues matched the same element in concurrent pullWork calls; one of
\* them was assigned it and has received its copy, the other holds a revision that
\* is no longer current and is about to save it
C2_Witness ==
    \E e \in ElementIDs : \E l \in LocalQs : \E k \in LocalQs \ {l} :
        /\ elements[GlobalQ][e].ChildQueueUrl = QueueURL(l)
        /\ copies[e] = {l}
        /\ Present(inbox[l][e])
        /\ pull[k].pc = "assign" /\ e \in pull[k].work /\ e \in pull[k].stale

\* the documents of both collections of queue q, as pairs of collection and id
Docs == ({"inbox"} \X DocIDs) \cup ({"elements"} \X ElementIDs)
Doc(q, d) == IF d[1] = "inbox" THEN inbox[q][d[2]] ELSE elements[q][d[2]]
\* a step that is one of the administrative RPCs setStatus, doneWork, resetWork
AdminStep == admin' # admin

\* the step moves no element to an earlier state of the state machine
Monotone ==
    \A q \in Queues : \A d \in Docs :
        Present(Doc(q, d)) => Leq(Doc(q, d).Status, Doc(q, d)'.Status)

SplitStep == ingest.pc = "split" /\ ingest'.pc = "idle"

Topology(d) == <<d.ChildQueueUrl, d.ParentQueueUrl, d.WMBSUrl, d.ParentQueueId>>

\* a step of queueWork: the insert of the inbox element or the split
IngestStep == ingest' # ingest

\* C4: once an element is Done, Failed or Canceled, setStatus, doneWork, resetWork,
\* cancelWork and performSyncAndCancelAction (every step but those of queueWork)
\* leave its Status and its topology fields (ChildQueueUrl, ParentQueueUrl,
\* WMBSUrl, ParentQueueId) unchanged.
C4_EndStateImmutable ==
    [][~IngestStep =>
         \A q \in Queues : \A d \in Docs :
            inEndState(Doc(q, d)) =>
               /\ Doc(q, d)'.Status = Doc(q, d).Status
               /\ Topology(Doc(q, d)') = Topology(Doc(q, d))]_vars

\* the store of the global queue after cancelWork(WorkflowName=wf)
Cancelled(wf) == cancelWork(GlobalQ, Store(GlobalQ), ElementIDs, wf, {}, now)
\* the newest update of the elements of wf on the global queue is older than
\* cancelGraceTime
Stalled(wf) ==
    /\ cancelGraceTime > 0
    /\ ElementsOf(GlobalQ, wf) # {}
    /\ \A e \in ElementsOf(GlobalQ, wf) : now - elements[GlobalQ][e].UpdateTime > cancelGraceTime

\* what cancelWork(WorkflowName=wf) on the global queue does to the elements of wf:
\* one without a child is Canceled, one with a child and not in an end state is
\* CancelRequested, or Canceled if the grace time has elapsed
CancelsElements(wf) ==
    \A e \in ElementsOf(GlobalQ, wf) :
        LET old == elements[GlobalQ][e]
            new == Cancelled(wf).el[e]
        IN /\ old.ChildQueueUrl = None => new.Status = "Canceled"
           /\ (old.ChildQueueUrl # None /\ ~inEndState(old)) =>
                 IF Stalled(wf) THEN new.Status \in {"CancelRequested", "Canceled"}
                 ELSE new.Status = "CancelRequested"

\* C5 (as stated): on the global queue, in every state, cancelWork for a workflow
\* moves its elements without a child to Canceled, its elements with a child that
\* are not in an end state to CancelRequested (not to Canceled before the grace
\* time has elapsed), and its inbox element to CancelRequested.
C5_GlobalCancel ==
    \A wf \in Workflows :
        /\ CancelsElements(wf)
        /\ \A i \in InboxOf(GlobalQ, wf) : Cancelled(wf).ib[i].Status = "CancelRequested"

\* C5 (amended): as C5, but the inbox element is moved to CancelRequested only if
\* it is not in an end state; an inbox element that is Done, Failed or Canceled is
\* left as it is.
C5_GlobalCancelLiveInbox ==
    \A wf \in Workflows :
        /\ CancelsElements(wf)
        /\ \A i \in InboxOf(GlobalQ, wf) :
              Cancelled(wf).ib[i].Status =
                 IF inEndState(inbox[GlobalQ][i]) THEN inbox[GlobalQ][i].Status
                 ELSE "CancelRequested"

\* cancelWork has run on the global queue before the grace time elapsed: the
\* element the local queue holds is CancelRequested, the element no queue holds is
\* Canceled, the inbox element is CancelRequested
C5_Witness ==
    /\ inbox[GlobalQ]["W1"].Status = "CancelRequested"
    /\ \E e, f \in ElementsOf(GlobalQ, "W1") :
          /\ elements[GlobalQ][e].ChildQueueUrl = QueueURL("L1")
          /\ elements[GlobalQ][e].Status = "CancelRequested"
          /\ Present(inbox["L1"][e])
          /\ elements[GlobalQ][f].ChildQueueUrl = None
          /\ elements[GlobalQ][f].Status = "Canceled"

CancelledLocal(wf, killed) == cancelWork("L1", Store("L1"), ElementIDs, wf, killed, now)
\* the workflows that call of cancelWork is about
RequestNames(wf) ==
    {elements["L1"][e].RequestName :
        e \in {x \in ElementIDs : Present(elements["L1"][x])
                                  /\ (wf = None \/ elements["L1"][x].RequestName = wf)}}
    \cup ({wf} \ {None})

\* C8: on the local queue, in every state and whichever kills fail, cancelWork
\* completes with a store in which the inbox elements of a workflow whose kill
\* failed are as they were, and the inbox elements of the workflows whose kill
\* succeeded are Canceled.
C8_LocalCancelKillFailure ==
    \A wf \in Workflows \cup {None} : \A killed \in KillOutcomes("L1", Workflows) :
        \A i \in DocIDs :
            (Present(inbox["L1"][i]) /\ inbox["L1"][i].RequestName \in RequestNames(wf)) =>
               IF inbox["L1"][i].RequestName \in killed
               THEN CancelledLocal(wf, killed).ib[i].Status = "Canceled"
               ELSE CancelledLocal(wf, killed).ib[i] = inbox["L1"][i]

\* cancelWork has run on the local queue, which holds elements of both workflows:
\* the kill of W2 succeeded and its inbox element is Canceled, the kill of W1
\* failed and its inbox element is as it was
C8_Witness ==
    /\ last.raised = None
    /\ Present(elements["L1"]["e1"]) /\ Present(elements["L1"]["e3"])
    /\ inbox["L1"]["e3"].Status = "Canceled"
    /\ inbox["L1"]["e1"].Status = "CancelRequested"

\* C9: a queueWork step whose request name differs from the name of the spec
\* raises WorkQueueWMSpecError, and a step that raises it leaves the inbox, the
\* elements and the ingest of every queue unchanged.
C9_NameMismatchRaises ==
    [][((\E wf \in Workflows : \E request \in Workflows \ {wf} : queueWork(wf, request))
          \/ last'.raised = "WorkQueueWMSpecError")
        => /\ last'.raised = "WorkQueueWMSpecError"
           /\ UNCHANGED <<inbox, everInbox, elements, ingest>>]_vars

\* queueWork was called for W2 with another request name before W2 was ever
\* queued: the call raised and there is no inbox element
C9_Witness ==
    /\ last.raised = "WorkQueueWMSpecError"
    /\ ~Present(inbox[GlobalQ]["W2"])
    /\ "W2" \notin everInbox[GlobalQ]

\* C10: a step that inserts an element into the element collection of a queue finds
\* the element's parent already inserted into the inbox of that queue.
C10_InboxBeforeSplit ==
    [][\A q \in Queues : \A e \in ElementIDs :
          (~Present(elements[q][e]) /\ Present(elements'[q][e])) =>
             elements'[q][e].ParentQueueId \in everInbox[q]]_vars

\* the workflow has been split on the global queue and the element the local queue
\* pulled has been split there, each under its inbox element
C10_Witness ==
    \E e \in ElementIDs :
        /\ Present(elements[GlobalQ][e])
        /\ elements[GlobalQ][e].ParentQueueId \in everInbox[GlobalQ]
        /\ Present(elements["L1"][e])
        /\ elements["L1"][e].ParentQueueId \in everInbox["L1"]

\* C11: after every step, an inbox element that is Acquired has split elements
\* under it in the same queue, and an inbox element that a step inserts on the
\* global queue is Negotiating.
C11_AcquiredAfterChildren ==
    [][/\ \A q \in Queues : \A i \in DocIDs :
             inbox'[q][i].Status = "Acquired" =>
                \E e \in ElementIDs : /\ Present(elements'[q][e])
                                      /\ elements'[q][e].ParentQueueId = i
       /\ \A i \in DocIDs :
             (~Present(inbox[GlobalQ][i]) /\ Present(inbox'[GlobalQ][i])) =>
                inbox'[GlobalQ][i].Status = "Negotiating"]_vars

\* the workflow has been split on the global queue and one of its elements on the
\* local queue: both inbox elements are Acquired and have their elements
C11_Witness ==
    /\ inbox[GlobalQ]["W1"].Status = "Acquired"
    /\ ElementsForParent(GlobalQ, "W1") # {}
    /\ \E e \in SplitOf("W1") :
          /\ inbox["L1"][e].Status = "Acquired"
          /\ ElementsForParent("L1", e) = {e}

\* C12: a queueWork step for a workflow that has an inbox element on the global
\* queue leaves the inbox as it is; after every step the inbox elements of a
\* workflow on the global queue are at most the one named after the workflow; and
\* the split step of a queueWork for a workflow that has split elements leaves the
\* elements as they are.
C12_DuplicatesIgnored ==
    [][/\ \A wf \in Workflows :
             (ingest.pc = "idle" /\ ingest'.pc = "split" /\ ingest'.wf = wf
                /\ Present(inbox[GlobalQ][wf])) => inbox' = inbox
       /\ \A wf \in Workflows :
             {i \in DocIDs : Present(inbox'[GlobalQ][i]) /\ inbox'[GlobalQ][i].RequestName = wf}
                \subseteq {wf}
       /\ (ingest.pc = "split" /\ ingest'.pc = "idle"
             /\ ElementsForParent(GlobalQ, ingest.wf) # {}) => elements' = elements]_vars

\* queueWork is called again for a workflow that is already split: its inbox
\* element is Acquired, its elements are there, and the second call is at its
\* split step
C12_Witness ==
    /\ ingest.pc = "split" /\ ingest.wf = "W1"
    /\ inbox[GlobalQ]["W1"].Status = "Acquired"
    /\ ElementsForParent(GlobalQ, "W1") = SplitOf("W1")

\* C13: the split step of queueWork for a workflow that has no elements yet, when
\* the splitter raises a terminal exception, sets the inbox element to Failed,
\* leaves the elements as they are and raises the error to the caller; when
\* another exception is raised the Status of the inbox element stays what it was
\* and the exception is raised to the caller.
C13_TerminalSplitFails ==
    [][(ElementsForParent(GlobalQ, ingest.wf) = {}) =>
          /\ queueWorkSplit("terminal") =>
                /\ inbox'[GlobalQ][ingest.wf].Status = "Failed"
                /\ elements' = elements
                /\ last'.raised = "TerminalSplitError"
          /\ (queueWorkSplit("error") \/ queueWorkSplit("unsaved")) =>
                /\ inbox'[GlobalQ][ingest.wf].Status = inbox[GlobalQ][ingest.wf].Status
                /\ last'.raised = "Exception"]_vars

\* the splitter has raised a terminal exception in queueWork: the error reached the
\* caller, the inbox element is Failed and the workflow has no elements
C13_Witness ==
    /\ last.raised = "TerminalSplitError"
    /\ inbox[GlobalQ]["W1"].Status = "Failed"
    /\ ElementsForParent(GlobalQ, "W1") = {}

\* C14: in every state and on every queue, an inbox element whose Status is
\* Acquired or later has a Jobs value equal to the sum of the Jobs of the split
\* elements under it.
C14_JobsSum ==
    \A q \in Queues : \A i \in DocIDs :
        (Present(inbox[q][i]) /\ inbox[q][i].Status \notin {"Negotiating", "Available"}) =>
           TotalJobs(q, ElementsForParent(q, i)) = inbox[q][i].Jobs

\* a split of wf has recorded its inputs on the global queue, and every block
\* listed for wf has its element there: nothing new has appeared since
NoNewInput(wf) ==
    /\ Present(inbox[GlobalQ][wf])
    /\ inbox[GlobalQ][wf].ProcessedInputs # {}
    /\ (SplitOf(wf) \cap dbs) \subseteq ElementsForParent(GlobalQ, wf)

\* C15: an addWork step for a workflow for which nothing new has appeared leaves
\* the elements as they are and the ProcessedInputs of the inbox element equal to
\* what they were.
C15_ContinuousIdempotent ==
    [][\A wf \in Workflows :
          (NoNewInput(wf) /\ (addWork(wf, "ok") \/ addWork(wf, "error"))) =>
             /\ elements' = elements
             /\ inbox'[GlobalQ][wf].ProcessedInputs = inbox[GlobalQ][wf].ProcessedInputs]_vars

\* the parent holds the element e in Negotiating for the queue l
NegotiatingFor(l, e) ==
    /\ elements[GlobalQ][e].Status = "Negotiating"
    /\ elements[GlobalQ][e].ChildQueueUrl = QueueURL(l)
\* queue l has no parent, or the parent still holds an element in Negotiating for
\* l, or the inbox of l still holds an element in Negotiating
MustNotPull(l) ==
    \/ ParentQueueCouchUrl(l) = None
    \/ \E e \in ElementIDs : NegotiatingFor(l, e)
    \/ \E i \in DocIDs : inbox[l][i].Status = "Negotiating"

\* C16: a pullWork step of a queue that must not pull returns 0 and leaves the
\* elements of every queue and the pull in flight as they are; and a step that
\* puts an element in Negotiating for a queue on the parent starts from a state
\* where the parent holds no element in Negotiating for that queue.
C16_PullPreconditions ==
    [][\A l \in Queues :
          /\ (MustNotPull(l) /\ \E resources \in BOOLEAN, work \in SUBSET ElementIDs :
                                   pullWork(l, resources, work)) =>
                /\ last'.ret = 0 /\ last'.raised = None
                /\ UNCHANGED <<elements, pull>>
          /\ (\E e \in ElementIDs : NegotiatingFor(l, e)' /\ ~NegotiatingFor(l, e)) =>
                ~\E f \in ElementIDs : NegotiatingFor(l, f)]_vars

\* a local queue has asked for work while the parent still holds an element in
\* Negotiating for it, and got none
C16_Witness ==
    \E l \in LocalQs :
        /\ \E e \in ElementIDs : NegotiatingFor(l, e)
        /\ \E f \in ElementIDs : elements[GlobalQ][f].Status = "Available"
        /\ pull[l].pc = "idle"
        /\ last = Returned("pullWork", l, {}, {})

\* the elements of the parent that a step writes
Written == {e \in ElementIDs : elements'[GlobalQ][e] # elements[GlobalQ][e]}

\* C17: the step of pullWork that assigns work to the queue l writes only elements
\* the parent's matcher returned; each element it writes is Negotiating with
\* ChildQueueUrl the URL of l, ParentQueueUrl the URL of the parent and WMBSUrl the
\* WMBS URL of l; the call returns the number of elements written, at most
\* WorkPerCycle; the elements of the other queues are as they were.
C17_AssignFrame ==
    [][\A l \in LocalQs :
          (pull[l].pc = "assign" /\ pull'[l].pc = "idle") =>
             /\ Written \subseteq pull[l].work
             /\ \A e \in Written :
                   /\ elements'[GlobalQ][e].Status = "Negotiating"
                   /\ elements'[GlobalQ][e].ChildQueueUrl = QueueURL(l)
                   /\ elements'[GlobalQ][e].ParentQueueUrl = GlobalQ
                   /\ elements'[GlobalQ][e].WMBSUrl = WMBSUrl(l)
             /\ last'.ret = Cardinality(Written)
             /\ last'.ret <= WorkPerCycle
             /\ \A q \in LocalQs : elements'[q] = elements[q]]_vars

\* a pullWork has assigned WorkPerCycle elements to a local queue
C17_Witness ==
    \E l \in LocalQs :
        /\ last.ret = WorkPerCycle
        /\ pull[l].pc = "idle"
        /\ Cardinality({e \in ElementIDs : NegotiatingFor(l, e)
                                            /\ elements[GlobalQ][e].WMBSUrl = WMBSUrl(l)
                                            /\ elements[GlobalQ][e].ParentQueueUrl = GlobalQ})
              = WorkPerCycle

\* a delivery to the local queue L1 never moves its copy of an element backwards,
\* and an element is inserted there once, Available and under its own Id
DeliveryAbsorbed ==
    \A e \in ElementIDs :
        /\ Present(inbox["L1"][e]) =>
              /\ Present(inbox'["L1"][e])
              /\ Leq(inbox["L1"][e].Status, inbox'["L1"][e].Status)
        /\ (~Present(elements["L1"][e]) /\ Present(elements'["L1"][e])) =>
              /\ elements'["L1"][e].Status = "Available"
              /\ elements'["L1"][e].Id = e
        /\ Present(elements["L1"][e]) =>
              /\ Present(elements'["L1"][e])
              /\ Leq(elements["L1"][e].Status, elements'["L1"][e].Status)

Settled(l, e) ==
    /\ Merge(elements[GlobalQ][e], inbox[l][e]).Status = elements[GlobalQ][e].Status
    /\ Merge(inbox[l][e], elements[GlobalQ][e]).Status = inbox[l][e].Status

C20_FailingMatchSkipped ==
    [][\A l \in LocalQs : \A matches \in SUBSET ElementIDs : \A failing \in SUBSET matches :
          getWork(l, matches, failing, {}) =>
             /\ last'.raised = None
             /\ last'.ret = Cardinality(matches \ failing)
             /\ \A e \in failing : /\ elements'[l][e] = elements[l][e]
                                   /\ elements'[l][e].Status = "Available"
             /\ \A e \in matches \ failing : elements'[l][e].Status = "Running"]_vars

\* getWork on L1 has returned one element of a batch of two: one of the two
\* elements of W1 is Running with a subscription, the other is still Available
C20_Witness ==
    /\ last.raised = None /\ last.ret = 1
    /\ \E e \in SplitOf("W1") : \E f \in SplitOf("W1") \ {e} :
          /\ elements["L1"][e].Status = "Running"
          /\ elements["L1"][e].SubscriptionId = SubscriptionOf(e)
          /\ elements["L1"][f].Status = "Available"
          /\ elements["L1"][f].SubscriptionId # SubscriptionOf(f)

\* C21: at a local queue, in every state, an element whose Status is Running has
\* a SubscriptionId.
C21_RunningHasSubscription ==
    \A l \in LocalQs : \A e \in ElementIDs :
        (Present(elements[l][e]) /\ elements[l][e].Status = "Running") =>
            elements[l][e].SubscriptionId # 0

\* the elements a matcher call returned, and the site it placed an element at
Matched == {mt.matched[i].el : i \in 1..Len(mt.matched)}
JobsPlacedAt(site) ==
    LET at == {i \in 1..Len(mt.matched) : mt.matched[i].site = site}
        sum[S \in SUBSET at] ==
            IF S = {} THEN 0
            ELSE LET i == CHOOSE k \in S : TRUE IN mt.matched[i].el.Jobs + sum[S \ {i}]
    IN sum[at]

\* C22: after a matcher call, for every returned element m placed at site s, every
\* eligible Available element that has s among its possible sites and has a higher
\* Priority than m, or the same Priority and an earlier InsertTime, is returned too.
C22_PriorityOrder ==
    mt.done =>
        \A i \in 1..Len(mt.matched) : \A k \in DOMAIN mt.cands :
            LET m == mt.matched[i].el
                h == mt.cands[k]
            IN (/\ Eligible(h, mt.jobSlots)
                /\ mt.matched[i].site \in h.PossibleSite
                /\ \/ h.Priority > m.Priority
                   \/ h.Priority = m.Priority /\ h.InsertTime < m.InsertTime)
               => h \in Matched

\* the matcher was called with an Available element of priority 10 and an
\* earlier inserted Available element of priority 5, both possible at site X, which
\* offers one slot, and returned the element of priority 10 only
C22_Witness ==
    /\ mt.done /\ Len(mt.cands) = 2
    /\ DOMAIN mt.jobSlots = {"X"} /\ mt.jobSlots["X"] = 1
    /\ \E a \in 1..2 : \E b \in (1..2) \ {a} :
          /\ mt.cands[a].Status = "Available" /\ mt.cands[a].Priority = 10
          /\ mt.cands[b].Status = "Available" /\ mt.cands[b].Priority = 5
          /\ mt.cands[b].InsertTime < mt.cands[a].InsertTime
          /\ Matched = {mt.cands[a]}

\* C23: after a matcher call with free slots S, the Jobs of the elements placed at
\* a site sum to at most S[site] plus the largest Jobs of any stored element, and
\* at most numElems elements are returned.
C23_GreedyOvershoot ==
    mt.done =>
        /\ Len(mt.matched) <= mt.numElems
        /\ \A site \in DOMAIN mt.jobSlots :
              \A top \in 0..MaxJobs :
                 (\A k \in DOMAIN mt.cands : mt.cands[k].Jobs <= top) =>
                    JobsPlacedAt(site) <= mt.jobSlots[site] + top

\* the matcher has placed an element at a site and taken the site's slots below zero
C23_Witness ==
    /\ mt.done
    /\ \E site \in DOMAIN mt.jobSlots :
          /\ JobsPlacedAt(site) > mt.jobSlots[site]
          /\ mt.jobSlots[site] > 0

\* C24: a resetWork of an element that is not in an end state leaves it Available
\* with no ChildQueueUrl, no WMBSUrl and no SubscriptionId, and changes no other
\* field of it but the time of the update.
C24_ResetFrame ==
    [][\A q \in Queues : \A e \in ElementIDs :
          (resetWork(q, {e}) /\ ~inEndState(elements[q][e])) =>
             elements'[q][e] = [elements[q][e] EXCEPT !.Status = "Available",
                                                      !.ChildQueueUrl = None,
                                                      !.WMBSUrl = None,
                                                      !.SubscriptionId = 0,
                                                      !.UpdateTime = now]]_vars

\* the time of the latest update of a child element of wf on the global queue
LastChildUpdate(wf) ==
    LET children == ElementsForParent(GlobalQ, wf)
    IN elements[GlobalQ][CHOOSE c \in children :
             \A d \in children : elements[GlobalQ][d].UpdateTime <= elements[GlobalQ][c].UpdateTime
         ].UpdateTime

\* C25: a closeWork() on the global queue closes an open inbox element that has
\* children, an OpenRunningTimeout above zero and no new data exactly when the time
\* since the later of TimestampFoundNewData and the latest update of a child is
\* greater than OpenRunningTimeout.
C25_ClosedAfterTimeout ==
    [][\A w \in Workflows :
          (/\ closeWork(GlobalQ, {}, {})
           /\ Present(inbox[GlobalQ][w]) /\ inbox[GlobalQ][w].OpenForNewData
           /\ inbox[GlobalQ][w].OpenRunningTimeout > 0
           /\ ~newDataAvailable(w)
           /\ ElementsForParent(GlobalQ, w) # {}) =>
             (~inbox'[GlobalQ][w].OpenForNewData <=>
                now - Max(inbox[GlobalQ][w].TimestampFoundNewData, LastChildUpdate(w))
                   > inbox[GlobalQ][w].OpenRunningTimeout)]_vars

\* the documents of workflow wf in the collections of the global queue
DocsOfWorkflow(ib, el, wf) ==
    <<[i \in DocIDs |-> IF ib[i].RequestName = wf THEN ib[i] ELSE NoDoc],
      [e \in ElementIDs |-> IF el[e].RequestName = wf THEN el[e] ELSE NoDoc]>>

\* C26: a deleteWorkflows call deletes documents only of requests whose inbox
\* element was in an end state; the inbox element and the elements of a request
\* whose inbox element is in no end state are left as they were.
C26_DeleteOnlyFinished ==
    [][\A requests \in RequestLists :
          deleteWorkflows(GlobalQ, requests) =>
             \A wf \in Workflows :
                (Present(inbox[GlobalQ][wf]) /\ ~inEndState(inbox[GlobalQ][wf])) =>
                    DocsOfWorkflow(inbox'[GlobalQ], elements'[GlobalQ], wf)
                       = DocsOfWorkflow(inbox[GlobalQ], elements[GlobalQ], wf)]_vars

\* deleteWorkflows has deleted the finished workflow W1, inbox element and
\* elements, and has left the workflow W2, which is not finished, in place
C26_Witness ==
    /\ "W1" \in everInbox[GlobalQ] /\ ~Present(inbox[GlobalQ]["W1"])
    /\ ElementsOf(GlobalQ, "W1") = {}
    /\ Present(inbox[GlobalQ]["W2"]) /\ ~inEndState(inbox[GlobalQ]["W2"])
    /\ ElementsOf(GlobalQ, "W2") # {}
    /\ last.raised = None
    /\ ingest.pc = "idle"

C28_PriorityFrame ==
    [][\A newpriority \in Priorities : \A workflowNames \in SUBSET Workflows :
          setPriority(GlobalQ, newpriority, workflowNames) =>
             /\ inbox' = inbox
             /\ IF \A wf \in workflowNames : ElementsOf(GlobalQ, wf) = {}
                THEN last'.raised = "RuntimeError" /\ elements' = elements
                ELSE /\ last'.raised = None
                     /\ \A q \in Queues : \A e \in ElementIDs :
                           elements'[q][e] =
                              IF q = GlobalQ /\ Present(elements[q][e])
                                 /\ elements[q][e].RequestName \in workflowNames
                              THEN [elements[q][e] EXCEPT !.Priority = newpriority,
                                                          !.UpdateTime = now]
                              ELSE elements[q][e]]_vars

\* setPriority has given the elements of W1, one of them held by a local queue,
\* the priority 10 and has left the elements of W2 at theirs
C28_Witness ==
    /\ last.raised = None
    /\ \A e \in SplitOf("W1") : /\ Present(elements[GlobalQ][e])
                                /\ elements[GlobalQ][e].Priority = 10
    /\ \E e \in SplitOf("W1") : elements[GlobalQ][e].Status = "Negotiating"
    /\ \A e \in SplitOf("W2") : /\ Present(elements[GlobalQ][e])
                                /\ elements[GlobalQ][e].Priority # 10

\* the elements of queue q a setStatus or cancelWork call with these filters matches
Matching(q, ids, wf) ==
    {e \in ids : Present(elements[q][e]) /\ (wf = None \/ elements[q][e].RequestName = wf)}

Family(q, p) ==
    {e \in ElementIDs : Present(elements[q][e]) /\ elements[q][e].ParentQueueId = p}

\* a cancellation is requested for an element of the inbox element p of queue q
Requested(q, p) == \E e \in Family(q, p) : elements[q][e].Status = "CancelRequested"

\* the place of an inbox element in the order the store lists them
Place(p) == CHOOSE i \in 1..Len(DocOrder) : DocOrder[i] = p

\* the step neither saves progress on the elements es and the inbox elements ps of
\* queue q nor marks them finished or running
NothingPersisted(q, es, ps) ==
    /\ \A e \in es :
          /\ elements'[q][e].PercentComplete = elements[q][e].PercentComplete
          /\ elements'[q][e].PercentSuccess = elements[q][e].PercentSuccess
          /\ elements'[q][e].Status \in {elements[q][e].Status, "CancelRequested", "Canceled"}
    /\ \A p \in ps :
          /\ inbox'[q][p].PercentComplete = inbox[q][p].PercentComplete
          /\ inbox'[q][p].PercentSuccess = inbox[q][p].PercentSuccess
          /\ inbox'[q][p].Status \in {inbox[q][p].Status, "CancelRequested", "Canceled"}

\* the step leaves the workflow wf of queue q as cancelWork(WorkflowName=wf) leaves
\* it: on a local queue whose kill succeeded every inbox element is Canceled, on
\* the global queue every element without a child is Canceled and every element
\* with a child is CancelRequested or in an end state
CancelWorkDone(q, wf, killed) ==
    IF LocalQueueFlag(q)
    THEN (PopulateFilesets(q) => wf \in killed) =>
            \A p \in InboxOf(q, wf) : inbox'[q][p].Status = "Canceled"
    ELSE \A e \in ElementsOf(q, wf) :
            IF elements[q][e].ChildQueueUrl = None
            THEN elements'[q][e].Status = "Canceled"
            ELSE elements'[q][e].Status = "CancelRequested" \/ inEndState(elements'[q][e])

Rearrangements(n) == {p \in [1..n -> 1..n] : \A i, j \in 1..n : i # j => p[i] # p[j]}

\* the statuses of the parent the policy is asked about
ParentStatuses == {"Available", "Acquired", "Running", "CancelRequested", "Done", "Canceled"}

\* C31: SingleShot gives the same aggregate Status, PercentComplete and
\* PercentSuccess for every permutation of the element list, whatever the parent
\* and the threshold.
C31_OrderIndependent ==
    ss.res # <<>> =>
       \A p \in Rearrangements(Len(ss.els)) :
          LET shuffled == [i \in 1..Len(ss.els) |-> ss.els[p[i]]]
          IN /\ endPolicy(shuffled, <<ss.parent>>, ss.T) = ss.res
             /\ \A s \in ParentStatuses :
                   LET parent == [ss.parent EXCEPT !.Status = s]
                   IN endPolicy(shuffled, <<parent>>, ss.T)
                         = endPolicy(ss.els, <<parent>>, ss.T)

\* the policy was applied to three elements of different statuses and Jobs, among
\* them a CancelRequested one that is not the first, and reported CancelRequested
C31_Witness ==
    /\ ss.res # <<>> /\ Len(ss.els) = 3
    /\ ss.els[1].Status = "Done" /\ ss.els[2].Status = "Running"
    /\ ss.els[3].Status = "CancelRequested"
    /\ ss.els[1].Jobs # ss.els[3].Jobs
    /\ ss.res[1].Status = "CancelRequested"

\* C32: a closeWork() call or a continuous split in which the processing of one
\* workflow raises does not raise itself, handles every other workflow as it would
\* have without the failure, and leaves the Status of the failing workflow's inbox
\* element as it was.
C32_LoopsContinue ==
    [][/\ \A failing \in SUBSET Workflows :
             closeWork(GlobalQ, {}, failing) =>
                /\ last'.raised = None
                /\ \A w \in failing : inbox'[GlobalQ][w].Status = inbox[GlobalQ][w].Status
                /\ \A w \in workflowsToCheck(GlobalQ) \ failing :
                      /\ closeCheck(GlobalQ, w) = "close" => ~inbox'[GlobalQ][w].OpenForNewData
                      /\ closeCheck(GlobalQ, w) = "newdata" =>
                            inbox'[GlobalQ][w].TimestampFoundNewData = now
       /\ \A outcome \in {"error", "terminal"} :
             addWork("W1", outcome) =>
                /\ last'.raised = None
                /\ inbox'[GlobalQ]["W1"].Status = inbox[GlobalQ]["W1"].Status]_vars

C35_NewDataKeepsOpen ==
    [][\A failing \in SUBSET Workflows :
          (closeWork(GlobalQ, {}, failing) /\ last'.raised = None) =>
             \A w \in workflowsToCheck(GlobalQ) :
                (inbox[GlobalQ][w].OpenRunningTimeout > 0 /\ newDataAvailable(w)) =>
                   /\ inbox'[GlobalQ][w].OpenForNewData
                   /\ inbox'[GlobalQ][w].TimestampFoundNewData = now]_vars

\* W1 is open with a timeout, its children were created and last updated longer
\* ago than the timeout, and a closeWork() call has just found new data for it
C35_Witness ==
    /\ Present(inbox[GlobalQ]["W1"]) /\ inbox[GlobalQ]["W1"].OpenForNewData
    /\ inbox[GlobalQ]["W1"].OpenRunningTimeout > 0
    /\ inbox[GlobalQ]["W1"].TimestampFoundNewData = now
    /\ ElementsForParent(GlobalQ, "W1") # {}
    /\ \A e \in ElementsForParent(GlobalQ, "W1") :
          /\ now - elements[GlobalQ][e].UpdateTime > inbox[GlobalQ]["W1"].OpenRunningTimeout
          /\ now - elements[GlobalQ][e].InsertTime > inbox[GlobalQ]["W1"].OpenRunningTimeout

\* C33: an inbox element that is Negotiating while elements split from it are in
\* the store (the split was interrupted between the insert of the elements and
\* the update of the inbox element) is eventually no longer Negotiating.
C33_SplitResumes ==
    \A q \in {GlobalQ, "L1"} : \A i \in DocIDs :
        (inbox[q][i].Status = "Negotiating" /\ ElementsForParent(q, i) # {})
           ~> (inbox[q][i].Status # "Negotiating")

\* C38: a continuous split (addWork) never changes the Status of the inbox element
\* it splits, whether the split succeeds, fails or meets a terminal error; and on a
\* workflow whose start policy does not support work addition it inserts no
\* element, returns 0 and leaves the inbox as it is.
C38_ContinuousSplitFrame ==
    [][\A wf \in Workflows : \A outcome \in {"ok", "error", "terminal"} :
          addWork(wf, outcome) =>
             /\ inbox'[GlobalQ][wf].Status = inbox[GlobalQ][wf].Status
             /\ ~supportsWorkAddition(startPolicy(wf)) =>
                   /\ inbox' = inbox
                   /\ elements' = elements
                   /\ last'.ret = 0]_vars

\* a continuous split gave the Block workflow W1 its elements and left its inbox
\* element Negotiating, while the MonteCarlo workflow W2, for which the splitter
\* would have work, still has no processed input
C38_Witness ==
    /\ inbox[GlobalQ]["W1"].Status = "Negotiating"
    /\ inbox[GlobalQ]["W1"].ProcessedInputs # {}
    /\ ElementsForParent(GlobalQ, "W1") # {}
    /\ inbox[GlobalQ]["W2"].StartPolicy = "MonteCarlo"
    /\ Units("W2", inbox[GlobalQ]["W2"].ProcessedInputs) # {}
    /\ last.ret = 0

\* C39: when closeWork() is repeated fairly and time passes, an inbox element that
\* is open for new data with an OpenRunningTimeout above zero does not stay open
\* for ever without new data being available: it is closed in the end, also when it
\* has no child element.
C39_EventuallyClosed ==
    []<>(\/ ~inbox[GlobalQ]["W1"].OpenForNewData
         \/ inbox[GlobalQ]["W1"].OpenRunningTimeout = 0
         \/ newDataAvailable("W1"))

\* C36: on a local queue performSyncAndCancelAction, processInboundWork, pullWork
\* and getWork each resolve the conflicts of the store before they read or write an
\* element, so that none is left when they return; on the global queue they leave
\* the conflicts as they are.
C36_FixConflictsFirst ==
    [][/\ ( \/ ReconcileLocal
            \/ processInboundWork("L1", {}, {})
            \/ \E work \in SUBSET SplitOf("W2") : pullWork("L1", TRUE, work)
            \/ \E matches \in SUBSET SplitOf("W2"), unsaved \in SUBSET SplitOf("W2") :
                  getWork("L1", matches, {}, unsaved) )
          => "L1" \notin conflicts'
       /\ ReconcileGlobal \/ queueWorkSplit("ok") => conflicts' = conflicts]_vars

\* C37: however many getWork cycles run, and whichever of them fail to record
\* Running and the SubscriptionId after the subscription was created, an element
\* that is still Available on the local queue has at most one subscription.
C37_InjectedOnce ==
    \A e \in ElementIDs : elements["L1"][e].Status = "Available" => subs[e] <= 1

\* C40: when a call of a decorated setup step ends, by returning or by raising,
\* the global parameters of the factory it was called on are what they were when
\* the call began, also when the statements of a call on the other factory ran
\* in between.
C40_ParametersRestored ==
    [][\A f \in Factories :
          tc.pc[f] # "idle" /\ tc'.pc[f] = "idle" => tc'.glob[f] = tc.before[f]]_vars

====
